---- MODULE Spec2Model ----
(***************************************************************************)
(* Model of the terminal message-box renderer of                           *)
(* src/src/core/errors/printPrettyError.rs.                                *)
(*                                                                         *)
(* A string is a sequence of characters; a character is a one-token TLA+   *)
(* string.  "ESC" is \x1b, "NL" is \n, "WIDE" is a double-width code       *)
(* point, "ZW" a zero-width one, "V" "TL" "TR" "BL" "BR" "JL" "JR" "H" are *)
(* the box-drawing glyphs, "ICON_*" "ARROW" "TRI" the icon glyphs.         *)
(***************************************************************************)
EXTENDS Integers, Sequences, FiniteSets, TLC

\* ------------------------------------------------------------------ bounds

\* Length of an unbreakable token longer than every wrap width (MAX - 4).
LongLen == 150
\* Length of a word that fits a wide box but not a narrow one.
MidLen == 60
\* Lines, and columns of each line, of a message whose box holds more bytes
\* than the BufWriter.
BigLines == 50
BigLen == 130
\* Render calls made one after the other in SpecPair.
PairCalls == 2
\* Threads, print_pretty_message calls of each thread and rows of each box
\* in SpecThreads.
NumThreads == 2
CallsPerThread == 2
RowsPerBox == 3
\* Bytes of a row of a small box and of a box larger than the BufWriter.
SmallRow == 400
BigRow == 3000
\* Longest string visible_len is applied to on its own.
VisMaxLen == 4
\* Longest plain text, and widest row, draw_row is applied to on its own.
RowMaxLen == 3
RowMaxWidth == 5
\* Threads that initialize tracing, and init calls of each, in SpecTracing.
NumInitThreads == 2
InitCallsPerThread == 2
\* display_* calls made one after the other in SpecDisplay.
DisplayCalls == 1
\* Longest free-form value of GMN_LOG_OUTPUT.
EnvMaxLen == 3
\* Widest padding asked of write_padding on its own.
PadMax == 150

\* --------------------------------------------------------------- constants

MIN_CONTENT_WIDTH == 40
MAX_CONTENT_WIDTH == 140
FRAME_MARGIN == 4
\* SPACES.len(): the static filler of spaces.
SPACES_LEN == 72

ESC == "ESC"
NL == "NL"
None == <<"None">>

RESET == <<ESC, "[", "0", "m">>

\* ----------------------------------------------------------------- helpers

Min(a, b) == IF a < b THEN a ELSE b
Max(a, b) == IF a > b THEN a ELSE b
\* usize::saturating_sub
SatSub(a, b) == IF a > b THEN a - b ELSE 0
Rep(c, n) == [i \in 1..n |-> c]
IsSome(o) == o # None

\* UnicodeWidthChar::width(c).unwrap_or(0)
CharWidth(c) ==
    IF c = "WIDE" THEN 2
    ELSE IF c \in {"ZW", ESC, NL} THEN 0
    ELSE 1

\* char::to_uppercase on the ASCII letters
UpperChar(c) ==
    CASE c = "a" -> "A"
      [] c = "b" -> "B"
      [] c = "c" -> "C"
      [] c = "d" -> "D"
      [] c = "e" -> "E"
      [] c = "f" -> "F"
      [] c = "g" -> "G"
      [] c = "h" -> "H"
      [] c = "i" -> "I"
      [] c = "j" -> "J"
      [] c = "k" -> "K"
      [] c = "l" -> "L"
      [] c = "m" -> "M"
      [] c = "n" -> "N"
      [] c = "o" -> "O"
      [] c = "p" -> "P"
      [] c = "q" -> "Q"
      [] c = "r" -> "R"
      [] c = "s" -> "S"
      [] c = "t" -> "T"
      [] c = "u" -> "U"
      [] c = "v" -> "V"
      [] c = "w" -> "W"
      [] c = "x" -> "X"
      [] c = "y" -> "Y"
      [] c = "z" -> "Z"
      [] OTHER -> c

to_uppercase(s) == [i \in 1..Len(s) |-> UpperChar(s[i])]

\* ------------------------------------------------------------- visible_len

\* A scan that counts the m that ends a sequence.
VisibleStep_counts_m(st, c) ==
    IF c = ESC THEN [len |-> st.len, in_esc |-> TRUE]
    ELSE IF st.in_esc /\ c # "m" THEN [len |-> st.len, in_esc |-> TRUE]
    ELSE [len |-> st.len + CharWidth(c), in_esc |-> FALSE]

\* One turn of the loop over s.chars(): st = [len, in_esc]
VisibleStep(st, c) ==
    IF c = ESC THEN [len |-> st.len, in_esc |-> TRUE]
    ELSE IF st.in_esc THEN [len |-> st.len, in_esc |-> c # "m"]
    ELSE [len |-> st.len + CharWidth(c), in_esc |-> FALSE]

RECURSIVE VisibleScan(_, _, _, _)
\* The loop over s[lo..hi] started in state st, run as two half loops so
\* that the evaluation stays shallow.
VisibleScan(s, lo, hi, st) ==
    IF lo > hi THEN st
    ELSE IF lo = hi THEN VisibleStep(st, s[lo])
    ELSE LET mid == (lo + hi) \div 2
             left == VisibleScan(s, lo, mid, st)
         IN  IF left.len >= 0 THEN VisibleScan(s, mid + 1, hi, left) ELSE left

visible_len(s) == VisibleScan(s, 1, Len(s), [len |-> 0, in_esc |-> FALSE]).len

\* --------------------------------------------------------------- the clock

Digits == <<"0", "1", "2", "3", "4", "5", "6", "7", "8", "9">>
TwoDigits(n) == <<Digits[(n \div 10) + 1], Digits[(n % 10) + 1]>>

\* A timestamp whose hour is not padded to two digits.
FormatTime_unpadded(t) ==
    (IF t \div 3600 < 10 THEN <<Digits[(t \div 3600) + 1]>> ELSE TwoDigits(t \div 3600))
        \o <<":">> \o TwoDigits((t \div 60) % 60) \o <<":">> \o TwoDigits(t % 60)

\* Local::now().format("%H:%M:%S") for t seconds after local midnight
FormatTime(t) ==
    TwoDigits(t \div 3600) \o <<":">> \o TwoDigits((t \div 60) % 60)
        \o <<":">> \o TwoDigits(t % 60)

\* ------------------------------------------------------------------ frames

Sgr(params) == <<ESC, "[">> \o params \o <<"m">>

MakeFrame(color, icon, label) ==
    [ border_v |-> Sgr(color) \o <<"V">> \o RESET,
      border_tl |-> Sgr(color) \o <<"TL">> \o RESET,
      border_tr |-> Sgr(color) \o <<"TR">> \o RESET,
      border_bl |-> Sgr(color) \o <<"BL">> \o RESET,
      border_br |-> Sgr(color) \o <<"BR">> \o RESET,
      border_joint_left |-> Sgr(color) \o <<"JL">> \o RESET,
      border_joint_right |-> Sgr(color) \o <<"JR">> \o RESET,
      line_color |-> Sgr(color),
      line_dim_color |-> Sgr(color \o <<";", "2">>),
      icon |-> <<icon>>,
      label |-> label,
      label_color |-> color ]

FRAME_ERROR == MakeFrame(<<"3", "1">>, "ICON_ERROR", <<"E", "R", "R", "O", "R">>)
FRAME_WARNING ==
    MakeFrame(<<"3", "3">>, "ICON_WARNING", <<"W", "A", "R", "N", "I", "N", "G">>)
FRAME_INFO == MakeFrame(<<"3", "4">>, "ICON_INFO", <<"I", "N", "F", "O">>)
FRAME_SUCCESS ==
    MakeFrame(<<"3", "2">>, "ICON_SUCCESS", <<"S", "U", "C", "C", "E", "S", "S">>)
FRAME_INPUT == MakeFrame(<<"3", "6">>, "ICON_INPUT", <<"I", "N", "P", "U", "T">>)

PrettyMessageLevel == {"Error", "Warning", "Info", "Success", "Input"}

frame_for(level) ==
    CASE level = "Error" -> FRAME_ERROR
      [] level = "Warning" -> FRAME_WARNING
      [] level = "Info" -> FRAME_INFO
      [] level = "Success" -> FRAME_SUCCESS
      [] level = "Input" -> FRAME_INPUT

\* ---------------------------------------------------- terminal_width_limit

IsDigit(c) == \E d \in 1..10 : Digits[d] = c
DigitValue(c) == (CHOOSE d \in 1..10 : Digits[d] = c) - 1

RECURSIVE ParseDigits(_, _, _)
ParseDigits(s, i, acc) ==
    IF i > Len(s) THEN acc
    ELSE IF IsDigit(s[i]) THEN ParseDigits(s, i + 1, acc * 10 + DigitValue(s[i]))
    ELSE -1

\* str::parse::<usize>: an optional "+" and at least one digit; -1 stands
\* for Err.
ParseUsize(s) ==
    IF s = <<>> THEN -1
    ELSE IF s[1] = "+" THEN (IF Len(s) = 1 THEN -1 ELSE ParseDigits(s, 2, 0))
    ELSE ParseDigits(s, 1, 0)

\* term = [live |-> <<>> or <<w>>, the width terminal_size() reports,
\*         columns |-> None or the text of the COLUMNS variable]
terminal_width_limit(term) ==
    IF term.live # <<>> THEN SatSub(term.live[1], 2)
    ELSE IF IsSome(term.columns) /\ ParseUsize(term.columns) >= 0
        THEN SatSub(ParseUsize(term.columns), 2)
    ELSE 100

\* ------------------------------------------------------------ str::lines()

\* the k-th smallest element of a set of numbers
Kth(S, k) == CHOOSE x \in S : Cardinality({y \in S : y < x}) = k - 1

\* str::split('\n'): the pieces between consecutive NL, a final empty piece
\* is kept
SplitNewline(s) ==
    LET cuts == {0, Len(s) + 1} \cup {i \in 1..Len(s) : s[i] = NL}
    IN  [k \in 1..(Cardinality(cuts) - 1) |->
            SubSeq(s, Kth(cuts, k) + 1, Kth(cuts, k + 1) - 1)]

\* str::lines(): as split('\n') without a final empty piece
Lines(s) ==
    LET p == SplitNewline(s)
    IN  IF p[Len(p)] = <<>> THEN SubSeq(p, 1, Len(p) - 1) ELSE p

RECURSIVE MeasureFrom(_, _, _, _)
\* the loop of measure_lines over the lines i.. of ls
MeasureFrom(ls, i, indent, max_len) ==
    IF i > Len(ls) THEN max_len
    ELSE LET len == indent + visible_len(ls[i])
         IN  MeasureFrom(ls, i + 1, indent, IF len > max_len THEN len ELSE max_len)

\* A measure that leaves the indent of the rows out.
measure_lines_no_indent(max_len, indent, text) ==
    MeasureFrom(Lines(text), 1, 0, max_len)

\* measure_lines(&mut max_len, indent, text): the new value of max_len
measure_lines(max_len, indent, text) == MeasureFrom(Lines(text), 1, indent, max_len)

\* ------------------------------------------------------------------- state

VARIABLES
    \* the inputs of the calls of one behaviour: [level, title, code,
    \* message, context, hint, location], the last three None when absent
    args,
    \* the terminal: [live, columns]
    term,
    \* seconds after local midnight
    clock,
    \* whether the colored crate emits escape sequences (NO_COLOR, CLICOLOR,
    \* stdout being a terminal)
    colorize,
    \* the wrap algorithm textwrap is built with: "OptimalFit" (its default
    \* features) or "FirstFit"
    wrap_algorithm,
    \* whether a write to the stderr device fails (a closed pipe, a full disk)
    stderr_broken,
    \* the entry point of the running call: "print" or "to_string"
    entry,
    \* position of the running call, "idle" between calls
    pc,
    \* locals of the running call
    content_width, timestamp, wrapped, idx, render_res, flush_res,
    \* the BufWriter's pending chunks, the chunks stderr received during the
    \* call, and the Vec<u8> of pretty_message_to_string
    buf, dev, vec,
    \* what the last call returned, and per entry point the outcome of its
    \* last call
    ret, last,
    \* calls the behaviour may still start
    quota,
    \* the threads of SpecThreads: position, BufWriter, calls made; the owner
    \* of the stderr lock and what stderr received
    t_pc, t_buf, t_calls, lock, tty,
    \* the outcomes ("ok", "err") of the writes the running call has
    \* attempted on the stderr device, in order
    io_log,
    \* the argument and the result of a function applied on its own
    p_in, p_out,
    \* the static AtomicBool of tracing_setup, the global default subscriber
    \* of the process ("none", "foreign" when other code has set it, "init"
    \* when an init call has), and per thread its init call in
    \* progress, the outcomes of its finished calls and what its last
    \* is_initialized() saw
    TRACING_INITIALIZED, subscriber, inits,
    \* the events handed to tracing, in order, and the display_* call in
    \* progress
    emitted, disp

\* the outcome of a subtraction that panicked
PANIC == -1
\* what a usize wraps around at; 2^30 stands for 2^64, above every length
\* and width of the model
USIZE_WRAP == 1073741824

\* A clamp without its lower end.
Clamp_no_floor(v, lo, hi) == IF v > hi THEN hi ELSE v

\* Clamp(v, lo, hi): usize::clamp
Clamp(v, lo, hi) == IF v < lo THEN lo ELSE IF v > hi THEN hi ELSE v

\* A clamp that lost its floor and ceiling.
final_width_unclamped(desired, term_cap) ==
    Min(desired, Max(term_cap, MIN_CONTENT_WIDTH))

\* A terminal cap that lost its floor.
final_width_unfloored(desired, term_cap) ==
    Min(Clamp(desired, MIN_CONTENT_WIDTH, MAX_CONTENT_WIDTH), term_cap)

\* A width that ignores the terminal.
final_width_uncapped(desired, term_cap) ==
    Clamp(desired, MIN_CONTENT_WIDTH, MAX_CONTENT_WIDTH)

\* desired.clamp(MIN, MAX).min(term_cap.max(MIN))
final_width(desired, term_cap) ==
    Min(Clamp(desired, MIN_CONTENT_WIDTH, MAX_CONTENT_WIDTH),
        Max(term_cap, MIN_CONTENT_WIDTH))

\* visible_len(&format!(" {} {} {}", frame.icon, frame.label, title_up))
header_left_len(frame, title) ==
    visible_len(<<" ">> \o frame.icon \o <<" ">> \o frame.label
                    \o <<" ">> \o to_uppercase(title))

\* visible_len(&format!("[{}] {} ", code, timestamp))
header_right_len(code, ts) ==
    visible_len(<<"[">> \o code \o <<"]", " ">> \o ts \o <<" ">>)

\* max_len of compute_content_width before the margin is added
measured_len(frame, title, code, message, context, hint, location) ==
    LET ts == FormatTime(clock)
        m0 == header_left_len(frame, title) + header_right_len(code, ts)
        m1 == IF IsSome(location)
                THEN Max(m0, visible_len(<<" ", " ", " ", "TRI", "a", "t", " ">>
                                             \o location))
                ELSE m0
        m2 == measure_lines(m1, 2, message)
        m3 == IF IsSome(context) THEN measure_lines(m2, 2, context) ELSE m2
    IN  IF IsSome(hint) THEN measure_lines(m3, 5, hint) ELSE m3

compute_content_width(frame, title, code, message, context, hint, location) ==
    LET max_len == measured_len(frame, title, code, message, context, hint, location)
        desired == max_len + FRAME_MARGIN
        term_cap == terminal_width_limit(term)
    IN  final_width(desired, term_cap)

\* ------------------------------------------------------------------ inputs

Red == Sgr(<<"3", "1">>)

ShortText == <<"a", "b">>
TwoWords == Rep("a", 5) \o <<" ">> \o Rep("b", 7)
MidText == Rep("a", MidLen)
LongText == Rep("x", LongLen)
TwoLines == Rep("a", 10) \o <<NL>> \o Rep("b", 20)
ColoredText == Red \o <<"a", "b", "m">> \o RESET

Titles == {<<"b", "a", "d", " ", "m", "a", "x">>, LongText}
Codes == {<<"G", "-", "0", "0", "1">>}
Messages == {ShortText, MidText, LongText, TwoLines, ColoredText}
Contexts == {None, TwoLines}
Hints == {None, MidText}
Locations == {None, <<"m", ".", "r", "s", ":", "7">>, LongText}

\* widths terminal_size() reports, <<>> when it reports none
LiveWidths == {<<1>>, <<20>>, <<41>>, <<42>>, <<80>>, <<300>>}
\* values of COLUMNS, None when unset
ColumnsValues ==
    {None, <<"2", "0">>, <<"1", "2", "0">>, <<"+", "5", "0">>, <<"a", "b">>, <<>>}

\* two instants on either side of a change of every digit of the timestamp
Clocks == {35999, 36000}

ArgsOf(level, title, code, message, context, hint, location) ==
    [level |-> level, title |-> title, code |-> code, message |-> message,
     context |-> context, hint |-> hint, location |-> location]

AllArgs ==
    {ArgsOf(l, t, c, m, x, h, loc) :
        l \in PrettyMessageLevel, t \in Titles, c \in Codes, m \in Messages,
        x \in Contexts, h \in Hints, loc \in Locations}

\* a terminal whose size is reported (COLUMNS unset, or set to another
\* value), or none and any value of COLUMNS
Terminals ==
    {[live |-> w, columns |-> None] : w \in LiveWidths}
        \cup {[live |-> <<>>, columns |-> c] : c \in ColumnsValues}
        \cup {[live |-> <<80>>, columns |-> <<"2", "0">>]}

\* W, the width of the terminal when it is known: <<W>>, else <<>>
KnownWidth(t) ==
    IF t.live # <<>> THEN t.live
    ELSE IF IsSome(t.columns) /\ ParseUsize(t.columns) >= 0
        THEN <<ParseUsize(t.columns)>>
    ELSE <<>>

\* ----------------------------------------------------------- colored crate

\* the places where text holds the reset sequence ESC [ 0 m
ResetsIn(text) ==
    {i \in 1..(Len(text) - 3) : SubSeq(text, i, i + 3) = RESET}

RECURSIVE EscapeInnerResets(_, _)
\* ColoredString::escape_inner_reset_sequences: the style is stated again
\* after every reset the text holds
EscapeInnerResets(text, style) ==
    IF ResetsIn(text) = {} THEN text
    ELSE LET i == Kth(ResetsIn(text), 1)
             rest == EscapeInnerResets(SubSeq(text, i + 4, Len(text)), style)
         IN  SubSeq(text, 1, i + 3) \o Sgr(style) \o rest

\* Display of text.<style>(): the text between its style and a reset, or
\* the text alone when colors are off
Colored(text, style) ==
    IF colorize THEN Sgr(style) \o EscapeInnerResets(text, style) \o RESET
    ELSE text

Gray100 == <<"3", "8", ";", "2", ";", "1", "0", "0", ";", "1", "0", "0", ";", "1", "0", "0">>
Gray150 ==
    <<"3", ";", "3", "8", ";", "2", ";", "1", "5", "0", ";", "1", "5", "0", ";", "1", "5", "0">>

\* ------------------------------------------------------ drawing primitives

\* One write_all call: the bytes of s, n times over.
Chunk(s) == [s |-> s, n |-> 1]
NewlineChunk(n) == [s |-> <<NL>>, n |-> n]

\* write_padding: slices of the SPACES filler, SPACES_LEN bytes at most each
write_padding(width) ==
    [k \in 1..((width + SPACES_LEN - 1) \div SPACES_LEN) |->
        [s |-> <<" ">>, n |-> Min(SPACES_LEN, width - (k - 1) * SPACES_LEN)]]

\* write_horizontal: the color, width horizontal glyphs, the reset
write_horizontal(color, width) ==
    <<Chunk(color)>>
        \o (IF width > 0 THEN <<[s |-> <<"H">>, n |-> width]>> ELSE <<>>)
        \o <<Chunk(RESET)>>

\* A padding computed without stripping the escape sequences.
draw_row_raw_len(frame, width, content) ==
    <<Chunk(frame.border_v), Chunk(content)>>
        \o write_padding(SatSub(width, Len(content)))
        \o <<Chunk(frame.border_v), NewlineChunk(1)>>

draw_row(frame, width, content) ==
    LET vis_len == visible_len(content)
        padding == SatSub(width, vis_len)
    IN  <<Chunk(frame.border_v), Chunk(content)>>
            \o write_padding(padding)
            \o <<Chunk(frame.border_v), NewlineChunk(1)>>

\* A divider that always takes the T-junction branch.
draw_horizontal_line_joints(frame, width, joints) ==
    <<Chunk(frame.border_joint_left)>>
        \o write_horizontal(frame.line_dim_color, width)
        \o <<Chunk(frame.border_joint_right), NewlineChunk(1)>>

draw_horizontal_line(frame, width, joints) ==
    IF joints
        THEN <<Chunk(frame.border_joint_left)>>
                 \o write_horizontal(frame.line_dim_color, width)
                 \o <<Chunk(frame.border_joint_right), NewlineChunk(1)>>
        ELSE <<Chunk(frame.border_v)>>
                 \o write_horizontal(frame.line_dim_color, width)
                 \o <<Chunk(frame.border_v), NewlineChunk(1)>>

\* ------------------------------------------------- the rows of the render

\* the top border: blank line, corner, horizontals, corner
TopChunks(frame, width) ==
    <<NewlineChunk(1), Chunk(frame.border_tl)>>
        \o write_horizontal(frame.line_color, width)
        \o <<Chunk(frame.border_tr), NewlineChunk(1)>>

\* left_part of the header row
LeftPart(frame, title) ==
    <<" ">> \o Colored(frame.icon, frame.label_color)
        \o <<" ">> \o Colored(frame.label \o <<":">>, <<"1", ";">> \o frame.label_color)
        \o <<" ">> \o Colored(to_uppercase(title), <<"1">>)

\* right_part of the header row
RightPart(code, ts) ==
    Colored(<<"[">> \o Colored(code, <<"1">>) \o <<"]", " ">> \o ts \o <<" ">>, Gray100)

\* space_needed of the header row
HeaderPadding(frame, width, title, code, ts) ==
    LET left_len ==
            visible_len(<<" ">> \o frame.icon \o <<" ">> \o frame.label
                            \o <<":", " ">> \o to_uppercase(title))
        right_len == visible_len(<<"[">> \o code \o <<"]", " ">> \o ts \o <<" ">>)
    IN  SatSub(width, left_len + right_len)

HeaderChunks(frame, width, title, code, ts) ==
    <<Chunk(frame.border_v), Chunk(LeftPart(frame, title))>>
        \o write_padding(HeaderPadding(frame, width, title, code, ts))
        \o <<Chunk(RightPart(code, ts)), Chunk(frame.border_v), NewlineChunk(1)>>

\* the content of the location row
LocationContent(loc) ==
    <<" ", " ", " ">> \o Colored(<<"TRI">>, <<"3", "0">>)
        \o Colored(<<"a", "t">>, <<"3", ";", "3", "0">>)
        \o <<" ">> \o Colored(loc, <<"3", ";", "4", ";", "9", "4">>)

MessageContent(line) == <<" ", " ">> \o Colored(line, <<"3", "7">>)
ContextLabel ==
    <<" ", " ">> \o Colored(<<"C", "O", "N", "T", "E", "X", "T", ":">>, Gray100)
ContextContent(line) == <<" ", " ">> \o Colored(line, Gray150)
HintLabel ==
    <<" ", " ">>
        \o Colored(<<"ARROW", " ", " ", "H", "I", "N", "T">>, <<"1", ";", "3", "3">>)
HintContent(line) == <<" ", " ", " ", " ", " ">> \o Colored(line, <<"3", "3">>)

\* the bottom border and the two closing newlines
BottomChunks(frame, width) ==
    <<Chunk(frame.border_bl)>>
        \o write_horizontal(frame.line_color, width)
        \o <<Chunk(frame.border_br), NewlineChunk(2)>>

\* ---------------------------------------------------------------- textwrap
\* textwrap::wrap(text, Options::new(width)) with the options new() sets:
\* words end at spaces, words wider than the line are broken, no indent.

\* the characters that are not a final byte (0x40..0x7E) of an escape
\* sequence
NonFinal ==
    {ESC, NL, " ", ";", ":", "+", "-", ".", "WIDE", "ZW", "TRI", "ARROW"}
        \cup {Digits[d] : d \in 1..10}

\* One turn of textwrap's scan of a word: after ESC the next character is
\* taken, and after ESC [ all up to a final byte; st.vis collects the
\* places of the characters that count.
TwStep(st, i, c) ==
    IF st.mode = "esc" THEN [mode |-> IF c = "[" THEN "csi" ELSE "text", vis |-> st.vis]
    ELSE IF st.mode = "csi"
        THEN [mode |-> IF c \in NonFinal THEN "csi" ELSE "text", vis |-> st.vis]
    ELSE IF c = ESC THEN [mode |-> "esc", vis |-> st.vis]
    ELSE [mode |-> "text", vis |-> st.vis \cup {i}]

RECURSIVE TwScan(_, _, _, _)
TwScan(s, lo, hi, st) ==
    IF lo > hi THEN st
    ELSE IF lo = hi THEN TwStep(st, lo, s[lo])
    ELSE LET mid == (lo + hi) \div 2
             left == TwScan(s, lo, mid, st)
         IN  IF left.mode # "" THEN TwScan(s, mid + 1, hi, left) ELSE left

\* the places of s whose characters textwrap counts
TwVisible(s) == TwScan(s, 1, Len(s), [mode |-> "text", vis |-> {}]).vis

\* the width of the counted characters of s at the places a..b
WidthIn(s, vis, a, b) ==
    Cardinality({j \in vis : a <= j /\ j <= b /\ CharWidth(s[j]) = 1})
        + 2 * Cardinality({j \in vis : a <= j /\ j <= b /\ CharWidth(s[j]) = 2})

\* textwrap::core::display_width
display_width(s) == WidthIn(s, TwVisible(s), 1, Len(s))

\* the number of spaces s ends with
TrailingSpaces(s) ==
    LET filled == {j \in 1..Len(s) : s[j] # " "}
    IN  IF filled = {} THEN Len(s)
        ELSE Len(s) - (CHOOSE m \in filled : \A j \in filled : j <= m)

\* Word::from(&line[a..b]): the text without its trailing spaces, the number
\* of those, the display width, and the place in the line
WordFrom(line, a, b) ==
    LET seg == SubSeq(line, a, b)
        ws == TrailingSpaces(seg)
        text == SubSeq(seg, 1, Len(seg) - ws)
    IN  [text |-> text, ws |-> ws, width |-> display_width(text), start |-> a]

\* WordSeparator::AsciiSpace: a word starts where a non-space follows a
\* space, and at the start of the line
find_words(line) ==
    LET starts ==
            {1} \cup {i \in 2..Len(line) : line[i - 1] = " " /\ line[i] # " "}
        ends == starts \cup {Len(line) + 1}
    IN  IF line = <<>> THEN <<>>
        ELSE [k \in 1..Cardinality(starts) |->
                 WordFrom(line, Kth(ends, k), Kth(ends, k + 1) - 1)]

RECURSIVE BreakFrom(_, _, _, _)
\* Word::break_apart from place offset of the word on: a piece ends before
\* the first counted character that would make it wider than line_width
BreakFrom(word, vis, offset, line_width) ==
    LET s == word.text
        cuts == {i \in vis :
                    /\ i > offset
                    /\ WidthIn(s, vis, offset, i - 1) > 0
                    /\ WidthIn(s, vis, offset, i) > line_width}
    IN  IF cuts = {}
            THEN <<[text |-> SubSeq(s, offset, Len(s)), ws |-> word.ws,
                    width |-> WidthIn(s, vis, offset, Len(s)),
                    start |-> word.start + offset - 1]>>
            ELSE LET cut == Kth(cuts, 1)
                 IN  <<[text |-> SubSeq(s, offset, cut - 1), ws |-> 0,
                        width |-> WidthIn(s, vis, offset, cut - 1),
                        start |-> word.start + offset - 1]>>
                         \o BreakFrom(word, vis, cut, line_width)

RECURSIVE break_words(_, _)
\* textwrap::core::break_words
break_words(words, line_width) ==
    IF words = <<>> THEN <<>>
    ELSE LET w == Head(words)
             first == IF w.width > line_width
                          THEN BreakFrom(w, TwVisible(w.text), 1, line_width)
                          ELSE <<w>>
         IN  first \o break_words(Tail(words), line_width)

\* Penalties::new() of the optimal-fit algorithm
NLINE_PENALTY == 1000
OVERFLOW_PENALTY == 2500
SHORT_LAST_LINE_FRACTION == 4
SHORT_LAST_LINE_PENALTY == 25

\* the width of the line made of the fragments i+1..j: the last fragment's
\* trailing spaces do not count
LineWidth(frags, i, j) ==
    LET total[k \in i..j] ==
            IF k = i THEN 0 ELSE total[k - 1] + frags[k].width + frags[k].ws
    IN  total[j] - frags[j].ws

\* wrap_optimal_fit's cost of one line made of the fragments i+1..j
LineCost(frags, i, j, line_width) ==
    LET target == Max(line_width, 1)
        w == LineWidth(frags, i, j)
    IN  NLINE_PENALTY
            + (IF w > target THEN (w - target) * OVERFLOW_PENALTY
               ELSE IF j < Len(frags) THEN (target - w) * (target - w)
               ELSE IF i + 1 = j /\ w * SHORT_LAST_LINE_FRACTION < target
                   THEN SHORT_LAST_LINE_PENALTY
               ELSE 0)

\* A way to break n fragments into lines: the set of the fragments that end
\* a line; the last fragment always does.
Breakings(n) == {b \cup {n} : b \in SUBSET (1..(n - 1))}

\* the fragment that ends the line before the one fragment j ends, 0 for
\* the first line
LineStart(b, j) ==
    LET before == {k \in b : k < j}
    IN  IF before = {} THEN 0 ELSE CHOOSE m \in before : \A k \in before : k <= m

BreakingCost(frags, b, line_width) ==
    LET ends == [k \in 1..Cardinality(b) |-> Kth(b, k)]
        sum[k \in 0..Cardinality(b)] ==
            IF k = 0 THEN 0
            ELSE sum[k - 1] + LineCost(frags, LineStart(b, ends[k]), ends[k], line_width)
    IN  sum[Cardinality(b)]

\* wrap_optimal_fit: the breakings of least total cost
wrap_optimal_fit(frags, line_width) ==
    {b \in Breakings(Len(frags)) :
        \A c \in Breakings(Len(frags)) :
            BreakingCost(frags, b, line_width) <= BreakingCost(frags, c, line_width)}

RECURSIVE FirstFitFrom(_, _, _, _, _)
\* wrap_first_fit from fragment i on, the line begun after fragment start
\* being width wide so far
FirstFitFrom(frags, i, start, width, line_width) ==
    IF i > Len(frags) THEN {Len(frags)}
    ELSE IF width + frags[i].width > line_width /\ i - 1 > start
        THEN {i - 1} \cup FirstFitFrom(frags, i + 1, i - 1,
                                       frags[i].width + frags[i].ws, line_width)
    ELSE FirstFitFrom(frags, i + 1, start, width + frags[i].width + frags[i].ws,
                      line_width)

wrap_first_fit(frags, line_width) == {FirstFitFrom(frags, 1, 0, 0, line_width)}

\* the text of the line made of the fragments i+1..j: from the start of the
\* first to the end of the last, its trailing spaces left out
LineText(line, frags, i, j) ==
    SubSeq(line, frags[i + 1].start, frags[j].start + Len(frags[j].text) - 1)

LinesOf(line, frags, b) ==
    [k \in 1..Cardinality(b) |-> LineText(line, frags, LineStart(b, Kth(b, k)), Kth(b, k))]

\* bytes of the UTF-8 encoding of a character
Utf8Len(c) ==
    IF c \in {"WIDE", "ZW", "TRI", "ARROW", "V", "TL", "TR", "BL", "BR", "JL", "JR", "H",
              "ICON_ERROR", "ICON_WARNING", "ICON_INFO", "ICON_SUCCESS", "ICON_INPUT"}
        THEN 3
        ELSE 1

\* str::len()
ByteLen(s) == Len(s) + 2 * Cardinality({i \in 1..Len(s) : Utf8Len(s[i]) = 3})

\* wrap_single_line: the lines one line of the text may be wrapped to
wrap_single_line(line, width) ==
    IF ByteLen(line) < width
        THEN {<<SubSeq(line, 1, Len(line) - TrailingSpaces(line))>>}
    ELSE LET frags == break_words(find_words(line), width)
             ways == IF wrap_algorithm = "OptimalFit"
                         THEN wrap_optimal_fit(frags, width)
                         ELSE wrap_first_fit(frags, width)
         IN  {LinesOf(line, frags, b) : b \in ways}

RECURSIVE WrapFrom(_, _, _)
WrapFrom(pieces, i, width) ==
    IF i > Len(pieces) THEN {<<>>}
    ELSE LET rest == WrapFrom(pieces, i + 1, width)
         IN  {first \o r : first \in wrap_single_line(pieces[i], width), r \in rest}

\* A wrap that takes the text as one line.
wrap_unsplit(text, width) == wrap_single_line(text, width)

\* textwrap::wrap(text, width): every line of the text wrapped on its own
wrap(text, width) == WrapFrom(SplitNewline(text), 1, width)

\* ------------------------------------------------------------------- sinks

\* io::BufWriter::new: the capacity of the buffer, in bytes
BufCapacity == 8192

ChunkBytes(c) == c.n * ByteLen(c.s)

EmptyBuf == [data |-> <<>>, len |-> 0]

\* A write to the stderr device: all of it, or an error and none of it.
\* st = [buf, dev, ok, log]
DeviceWrite(st, chunks) ==
    IF stderr_broken THEN [st EXCEPT !.ok = FALSE, !.log = Append(@, "err")]
    ELSE [st EXCEPT !.dev = @ \o chunks, !.log = Append(@, "ok")]

\* BufWriter::flush_buf: the pending bytes go to the device; they stay
\* pending when the device fails
flush_buf(st) ==
    IF st.buf.len = 0 THEN st
    ELSE LET r == DeviceWrite(st, st.buf.data)
         IN  IF r.ok THEN [r EXCEPT !.buf = EmptyBuf] ELSE r

\* BufWriter::write_all of one chunk
BufWriteAll(st, c) ==
    LET bytes == ChunkBytes(c)
        spare == BufCapacity - st.buf.len
        push(t) == [t EXCEPT !.buf = [data |-> Append(t.buf.data, c),
                                      len |-> t.buf.len + bytes]]
    IN  IF bytes < spare THEN push(st)
        ELSE LET flushed == IF bytes > spare THEN flush_buf(st) ELSE st
             IN  IF ~flushed.ok THEN flushed
                 ELSE IF bytes >= BufCapacity THEN DeviceWrite(flushed, <<c>>)
                 ELSE push(flushed)

RECURSIVE BufWriteFrom(_, _, _)
\* the write_all calls of one step, each followed by ?: the first error
\* ends them
BufWriteFrom(st, chunks, i) ==
    IF i > Len(chunks) \/ ~st.ok THEN st
    ELSE LET next == BufWriteAll(st, chunks[i])
         IN  IF next.ok THEN BufWriteFrom(next, chunks, i + 1) ELSE next

\* The chunks of one step written to the sink of the running call: the
\* BufWriter over the stderr lock, or the Vec, which never fails.
SinkWrite(chunks) ==
    IF entry = "print"
        THEN LET r == BufWriteFrom([buf |-> buf, dev |-> dev, ok |-> TRUE, log |-> io_log],
                                   chunks, 1)
             IN  [buf |-> r.buf, dev |-> r.dev, vec |-> vec, ok |-> r.ok, log |-> r.log]
        ELSE [buf |-> buf, dev |-> dev, vec |-> vec \o chunks, ok |-> TRUE,
              log |-> io_log]

\* ----------------------------------------------------- the render pipeline

env == <<args, term, colorize, wrap_algorithm>>
threads == <<t_pc, t_buf, t_calls, lock, tty>>
sinks == <<buf, dev, vec, io_log>>
probe == <<p_in, p_out>>
tracing == <<TRACING_INITIALIZED, subscriber, inits, emitted, disp>>
vars ==
    <<args, term, clock, colorize, wrap_algorithm, stderr_broken, entry, pc,
      content_width, timestamp, wrapped, idx, render_res, flush_res, buf, dev, vec,
      ret, last, quota, t_pc, t_buf, t_calls, lock, tty, io_log, p_in, p_out,
      TRACING_INITIALIZED, subscriber, inits, emitted, disp>>

NoCall ==
    [bytes |-> <<>>, ts |-> <<>>, width |-> 0, render_res |-> "none",
     flush_res |-> "none", ret |-> "none"]

frame == frame_for(args.level)

\* A print path that measures without the hint.
print_content_width_no_hint ==
    compute_content_width(frame, args.title, args.code, args.message, args.context,
        None, args.location)

\* let content_width = compute_content_width(...) of print_pretty_message
print_content_width ==
    compute_content_width(frame, args.title, args.code, args.message, args.context,
        args.hint, args.location)

\* let content_width = compute_content_width(...) of pretty_message_to_string
string_content_width ==
    compute_content_width(frame, args.title, args.code, args.message, args.context,
        args.hint, args.location)

\* Options::new(content_width.saturating_sub(4).max(10))
WrapWidth == Max(SatSub(content_width, 4), 10)

\* where the render goes on after the message block
AfterMessage ==
    IF IsSome(args.context) THEN "context_label"
    ELSE IF IsSome(args.hint) THEN "hint_divider"
    ELSE "bottom"

AfterContext == IF IsSome(args.hint) THEN "hint_divider" ELSE "bottom"

\* One step of render_pretty_message: its chunks go to the sink; an error
\* ends the render with Err, else the render goes on at next.
Emit(chunks, next) ==
    LET r == SinkWrite(chunks)
    IN  /\ buf' = r.buf
        /\ dev' = r.dev
        /\ vec' = r.vec
        /\ io_log' = r.log
        /\ pc' = IF r.ok THEN next ELSE "rendered"
        /\ render_res' = IF r.ok THEN render_res ELSE "Err"

\* A buffer that keeps the bytes of the call before.
NewVec_reused == vec

\* let mut buffer = Vec::new();
NewVec == <<>>

\* print_pretty_message is called: stderr is locked and wrapped in a
\* BufWriter
CallPrint ==
    /\ pc = "idle"
    /\ quota > 0
    /\ quota' = quota - 1
    /\ entry' = "print"
    /\ pc' = "compute"
    /\ buf' = EmptyBuf
    /\ dev' = <<>>
    /\ io_log' = <<>>
    /\ ret' = "none"
    /\ UNCHANGED <<env, clock, stderr_broken, content_width, timestamp, wrapped, idx,
                   render_res, flush_res, vec, last, threads, probe, tracing>>

\* pretty_message_to_string is called: the buffer is an empty Vec
CallToString ==
    /\ pc = "idle"
    /\ quota > 0
    /\ quota' = quota - 1
    /\ entry' = "to_string"
    /\ pc' = "compute"
    /\ vec' = NewVec
    /\ io_log' = <<>>
    /\ ret' = "none"
    /\ UNCHANGED <<env, clock, stderr_broken, content_width, timestamp, wrapped, idx,
                   render_res, flush_res, buf, dev, last, threads, probe, tracing>>

ComputeContentWidth ==
    /\ pc = "compute"
    /\ content_width' =
        IF entry = "print" THEN print_content_width ELSE string_content_width
    /\ pc' = "top"
    /\ UNCHANGED <<env, clock, stderr_broken, entry, timestamp, wrapped, idx, render_res,
                   flush_res, sinks, ret, last, quota, threads, probe, tracing>>

RenderTop ==
    /\ pc = "top"
    /\ Emit(TopChunks(frame, content_width), "header")
    /\ UNCHANGED <<env, clock, stderr_broken, entry, content_width, timestamp, wrapped,
                   idx, flush_res, ret, last, quota, threads, probe, tracing>>

RenderHeader ==
    /\ pc = "header"
    /\ timestamp' = FormatTime(clock)
    /\ Emit(HeaderChunks(frame, content_width, args.title, args.code, FormatTime(clock)),
            IF IsSome(args.location) THEN "location" ELSE "divider")
    /\ UNCHANGED <<env, clock, stderr_broken, entry, content_width, wrapped, idx,
                   flush_res, ret, last, quota, threads, probe, tracing>>

RenderLocation ==
    /\ pc = "location"
    /\ Emit(draw_row(frame, content_width, LocationContent(args.location)), "divider")
    /\ UNCHANGED <<env, clock, stderr_broken, entry, content_width, timestamp, wrapped,
                   idx, flush_res, ret, last, quota, threads, probe, tracing>>

RenderDivider ==
    /\ pc = "divider"
    /\ Emit(draw_horizontal_line(frame, content_width, FALSE), "blank")
    /\ UNCHANGED <<env, clock, stderr_broken, entry, content_width, timestamp, wrapped,
                   idx, flush_res, ret, last, quota, threads, probe, tracing>>

\* the blank row before the message, then textwrap::wrap(message, &wrap_opts)
RenderBlank ==
    /\ pc = "blank"
    /\ Emit(draw_row(frame, content_width, <<>>), "message")
    /\ IF pc' = "message"
           THEN wrapped' \in wrap(args.message, WrapWidth) /\ idx' = 1
           ELSE UNCHANGED <<wrapped, idx>>
    /\ UNCHANGED <<env, clock, stderr_broken, entry, content_width, timestamp,
                   flush_res, ret, last, quota, threads, probe, tracing>>

RenderMessageLine ==
    /\ pc = "message"
    /\ idx <= Len(wrapped)
    /\ Emit(draw_row(frame, content_width, MessageContent(wrapped[idx])), "message")
    /\ idx' = idx + 1
    /\ UNCHANGED <<env, clock, stderr_broken, entry, content_width, timestamp, wrapped,
                   flush_res, ret, last, quota, threads, probe, tracing>>

\* the blank row after the message
RenderMessageEnd ==
    /\ pc = "message"
    /\ idx > Len(wrapped)
    /\ Emit(draw_row(frame, content_width, <<>>), AfterMessage)
    /\ UNCHANGED <<env, clock, stderr_broken, entry, content_width, timestamp, wrapped,
                   idx, flush_res, ret, last, quota, threads, probe, tracing>>

\* the CONTEXT: row, then textwrap::wrap(ctx, &wrap_opts)
RenderContextLabel ==
    /\ pc = "context_label"
    /\ Emit(draw_row(frame, content_width, ContextLabel), "context")
    /\ IF pc' = "context"
           THEN wrapped' \in wrap(args.context, WrapWidth) /\ idx' = 1
           ELSE UNCHANGED <<wrapped, idx>>
    /\ UNCHANGED <<env, clock, stderr_broken, entry, content_width, timestamp,
                   flush_res, ret, last, quota, threads, probe, tracing>>

RenderContextLine ==
    /\ pc = "context"
    /\ idx <= Len(wrapped)
    /\ Emit(draw_row(frame, content_width, ContextContent(wrapped[idx])), "context")
    /\ idx' = idx + 1
    /\ UNCHANGED <<env, clock, stderr_broken, entry, content_width, timestamp, wrapped,
                   flush_res, ret, last, quota, threads, probe, tracing>>

\* the blank row after the context
RenderContextEnd ==
    /\ pc = "context"
    /\ idx > Len(wrapped)
    /\ Emit(draw_row(frame, content_width, <<>>), AfterContext)
    /\ UNCHANGED <<env, clock, stderr_broken, entry, content_width, timestamp, wrapped,
                   idx, flush_res, ret, last, quota, threads, probe, tracing>>

RenderHintDivider ==
    /\ pc = "hint_divider"
    /\ Emit(draw_horizontal_line(frame, content_width, FALSE), "hint_label")
    /\ UNCHANGED <<env, clock, stderr_broken, entry, content_width, timestamp, wrapped,
                   idx, flush_res, ret, last, quota, threads, probe, tracing>>

\* content_width - 6 on usize: the difference; below 6 a panic (PANIC) in a
\* build with overflow checks and the wrapped-around value in one without
hint_wrap_width(width) ==
    IF width >= 6 THEN {width - 6} ELSE {PANIC, USIZE_WRAP + width - 6}

\* the HINT row, then Options::new(content_width - 6) and textwrap::wrap
RenderHintLabel ==
    /\ pc = "hint_label"
    /\ \E w \in hint_wrap_width(content_width) :
        LET r == SinkWrite(draw_row(frame, content_width, HintLabel))
        IN  /\ buf' = r.buf
            /\ dev' = r.dev
            /\ vec' = r.vec
            /\ io_log' = r.log
            /\ render_res' = IF r.ok THEN render_res ELSE "Err"
            /\ pc' = IF ~r.ok THEN "rendered" ELSE IF w = PANIC THEN "panicked" ELSE "hint"
            /\ IF pc' = "hint"
                   THEN wrapped' \in wrap(args.hint, w) /\ idx' = 1
                   ELSE UNCHANGED <<wrapped, idx>>
    /\ UNCHANGED <<env, clock, stderr_broken, entry, content_width, timestamp,
                   flush_res, ret, last, quota, threads, probe, tracing>>

RenderHintLine ==
    /\ pc = "hint"
    /\ idx <= Len(wrapped)
    /\ Emit(draw_row(frame, content_width, HintContent(wrapped[idx])),
            IF idx = Len(wrapped) THEN "bottom" ELSE "hint")
    /\ idx' = idx + 1
    /\ UNCHANGED <<env, clock, stderr_broken, entry, content_width, timestamp, wrapped,
                   flush_res, ret, last, quota, threads, probe, tracing>>

\* the bottom border; Ok(()) when it is written
RenderBottom ==
    /\ pc = "bottom"
    /\ LET r == SinkWrite(BottomChunks(frame, content_width))
       IN  /\ buf' = r.buf
           /\ dev' = r.dev
           /\ vec' = r.vec
           /\ io_log' = r.log
           /\ render_res' = IF r.ok THEN "Ok" ELSE "Err"
    /\ pc' = "rendered"
    /\ UNCHANGED <<env, clock, stderr_broken, entry, content_width, timestamp, wrapped,
                   idx, flush_res, ret, last, quota, threads, probe, tracing>>

\* let _ = render_pretty_message(..); let _ = handle.flush();
PrintFlush ==
    /\ pc = "rendered"
    /\ entry = "print"
    /\ LET r == flush_buf([buf |-> buf, dev |-> dev, ok |-> TRUE, log |-> io_log])
       IN  /\ buf' = r.buf
           /\ dev' = r.dev
           /\ io_log' = r.log
           /\ flush_res' = IF r.ok THEN "Ok" ELSE "Err"
    /\ pc' = "flushed"
    /\ UNCHANGED <<env, clock, stderr_broken, entry, content_width, timestamp, wrapped,
                   idx, render_res, vec, ret, last, quota, threads, probe, tracing>>

\* print_pretty_message returns (): the BufWriter is dropped, which writes
\* what is still pending, and the lock is released
PrintReturn ==
    /\ pc = "flushed"
    /\ LET r == flush_buf([buf |-> buf, dev |-> dev, ok |-> TRUE, log |-> io_log])
       IN  /\ buf' = EmptyBuf
           /\ dev' = r.dev
           /\ io_log' = r.log
           /\ last' = [last EXCEPT !.print =
                          [bytes |-> r.dev, ts |-> timestamp, width |-> content_width,
                           render_res |-> render_res, flush_res |-> flush_res,
                           ret |-> "unit"]]
    /\ ret' = "unit"
    /\ pc' = IF disp.fn = "none" THEN "idle" ELSE "display"
    /\ content_width' = 0
    /\ timestamp' = <<>>
    /\ wrapped' = <<>>
    /\ idx' = 0
    /\ render_res' = "none"
    /\ flush_res' = "none"
    /\ UNCHANGED <<env, clock, stderr_broken, entry, vec, quota, threads, probe, tracing>>

\* pretty_message_to_string returns: the error of the render (the ?), or
\* String::from_utf8 of the buffer, whose bytes are those of valid strings
StringReturn ==
    /\ pc = "rendered"
    /\ entry = "to_string"
    /\ ret' = IF render_res = "Err" THEN "Err" ELSE "Ok"
    /\ last' = [last EXCEPT !.to_string =
                   [bytes |-> IF render_res = "Err" THEN <<>> ELSE vec,
                    ts |-> timestamp, width |-> content_width,
                    render_res |-> render_res, flush_res |-> "none", ret |-> ret']]
    /\ pc' = "idle"
    /\ content_width' = 0
    /\ timestamp' = <<>>
    /\ wrapped' = <<>>
    /\ idx' = 0
    /\ render_res' = "none"
    /\ UNCHANGED <<env, clock, stderr_broken, entry, flush_res, sinks, quota, threads, probe, tracing>>

\* The wall clock advances. It is read by compute_content_width and by the
\* header row: a tick anywhere else is read as a tick before the next of the
\* two.
Tick ==
    /\ pc \in {"compute", "top", "start"}
    /\ clock + 1 \in Clocks
    /\ clock' = clock + 1
    /\ UNCHANGED <<env, stderr_broken, entry, pc, content_width, timestamp, wrapped,
                   idx, render_res, flush_res, sinks, ret, last, quota, threads, probe, tracing>>

\* stderr starts to fail while print_pretty_message runs
BreakStderr ==
    /\ pc # "idle"
    /\ entry = "print"
    /\ ~stderr_broken
    /\ stderr_broken' = TRUE
    /\ UNCHANGED <<env, clock, entry, pc, content_width, timestamp, wrapped, idx,
                   render_res, flush_res, sinks, ret, last, quota, threads, probe, tracing>>

Next ==
    \/ CallPrint
    \/ CallToString
    \/ ComputeContentWidth
    \/ RenderTop
    \/ RenderHeader
    \/ RenderLocation
    \/ RenderDivider
    \/ RenderBlank
    \/ RenderMessageLine
    \/ RenderMessageEnd
    \/ RenderContextLabel
    \/ RenderContextLine
    \/ RenderContextEnd
    \/ RenderHintDivider
    \/ RenderHintLabel
    \/ RenderHintLine
    \/ RenderBottom
    \/ PrintFlush
    \/ PrintReturn
    \/ StringReturn
    \/ Tick
    \/ BreakStderr

\* --------------------------------------------------------------- the calls

\* a first word, a space and a second word: 99 columns in all
OverflowText == Rep("a", 15) \o <<" ">> \o Rep("b", 83)

ShortTitle == <<"b", "a", "d", " ", "m", "a", "x">>
ShortLocation == <<"m", ".", "r", "s", ":", "7">>
TheCode == <<"G", "-", "0", "0", "1">>

\* the calls of the render: every level; every combination of the optional
\* parts around short texts; and the long texts, one at a time
RenderArgs ==
    {ArgsOf(l, ShortTitle, TheCode, ShortText, None, None, None) :
        l \in PrettyMessageLevel}
    \cup {ArgsOf("Error", ShortTitle, TheCode, m, x, h, loc) :
            m \in {TwoLines, ColoredText}, x \in Contexts, h \in Hints,
            loc \in {None, ShortLocation}}
    \cup {ArgsOf("Error", LongText, TheCode, ShortText, None, None, None),
          ArgsOf("Error", ShortTitle, TheCode, ShortText, None, None, LongText),
          ArgsOf("Error", ShortTitle, TheCode, LongText, None, None, None),
          ArgsOf("Error", ShortTitle, TheCode, OverflowText, None, None, None),
          ArgsOf("Warning", ShortTitle, TheCode, TwoWords, LongText, LongText, None)}

\* BigLines lines of BigLen columns: a box of more bytes than the BufWriter
\* holds
BigMessage ==
    [i \in 1..(BigLines * (BigLen + 1) - 1) |->
        IF i % (BigLen + 1) = 0 THEN NL ELSE "x"]

BigArgs == ArgsOf("Error", ShortTitle, TheCode, BigMessage, None, None, None)

\* no terminal and no COLUMNS (a limit of 100), and terminals of 80 and of
\* 20 columns
RenderTerminals ==
    {[live |-> <<>>, columns |-> None],
     [live |-> <<80>>, columns |-> None],
     [live |-> <<20>>, columns |-> None]}

InitRest ==
    /\ stderr_broken = FALSE
    /\ entry = "none"
    /\ content_width = 0
    /\ timestamp = <<>>
    /\ wrapped = <<>>
    /\ idx = 0
    /\ render_res = "none"
    /\ flush_res = "none"
    /\ buf = EmptyBuf
    /\ dev = <<>>
    /\ vec = <<>>
    /\ io_log = <<>>
    /\ p_in = <<>>
    /\ p_out = <<>>
    /\ ret = "none"
    /\ last = [print |-> NoCall, to_string |-> NoCall]

NoTracing ==
    /\ TRACING_INITIALIZED = FALSE
    /\ subscriber = "none"
    /\ inits = <<>>
    /\ emitted = <<>>
    /\ disp = [fn |-> "none", step |-> 0]

NoThreads ==
    /\ NoTracing
    /\ t_pc = <<>>
    /\ t_buf = <<>>
    /\ t_calls = <<>>
    /\ lock = 0
    /\ tty = <<>>

Init ==
    /\ \/ /\ args \in RenderArgs
          /\ term \in RenderTerminals
          /\ colorize \in BOOLEAN
          /\ wrap_algorithm \in {"OptimalFit", "FirstFit"}
       \/ /\ args = BigArgs
          /\ term = [live |-> <<300>>, columns |-> None]
          /\ colorize = TRUE
          /\ wrap_algorithm = "OptimalFit"
    /\ clock = 35999
    /\ pc = "idle"
    /\ quota = 1
    /\ InitRest
    /\ NoThreads

Spec == Init /\ [][Next]_vars

\* --------------------------------------------- the width computation alone

WidthInit ==
    /\ args \in AllArgs
    /\ term \in Terminals
    /\ clock \in Clocks
    /\ colorize = TRUE
    /\ wrap_algorithm = "OptimalFit"
    /\ pc = "start"
    /\ quota = 0
    /\ InitRest
    /\ NoThreads

\* let content_width = compute_content_width(frame, title, ...)
ComputeWidth ==
    /\ pc = "start"
    /\ content_width' =
        compute_content_width(frame, args.title, args.code, args.message,
            args.context, args.hint, args.location)
    /\ pc' = "width"
    /\ UNCHANGED <<env, clock, stderr_broken, entry, timestamp, wrapped, idx, render_res,
                   flush_res, sinks, ret, last, quota, threads, probe, tracing>>

WidthNext == ComputeWidth \/ Tick

SpecWidth == WidthInit /\ [][WidthNext]_vars

\* C1: every content width compute_content_width returns lies in
\* [MIN_CONTENT_WIDTH, MAX_CONTENT_WIDTH] = [40, 140], for every style,
\* message and terminal outcome.
C1_WidthInRange ==
    pc = "width" =>
        /\ MIN_CONTENT_WIDTH <= content_width
        /\ content_width <= MAX_CONTENT_WIDTH

\* C1 witness: a width was computed for a 150-column line on a terminal
\* wide enough to hold it, and the ceiling applied.
C1_Witness ==
    /\ pc = "width"
    /\ args.message = LongText
    /\ term.live = <<300>>
    /\ content_width = MAX_CONTENT_WIDTH

\* C2 as stated: whenever the terminal width W is known, the content width
\* is at most W - 2.
C2_Original ==
    (pc = "width" /\ KnownWidth(term) # <<>>) =>
        content_width <= KnownWidth(term)[1] - 2

\* C2 amended: whenever the terminal width W is known, the content width is
\* at most max(W - 2, 40): at most W - 2 when W - 2 >= 40, and exactly 40
\* otherwise.
C2_Amended ==
    (pc = "width" /\ KnownWidth(term) # <<>>) =>
        LET limit == SatSub(KnownWidth(term)[1], 2)
        IN  /\ content_width <= Max(limit, MIN_CONTENT_WIDTH)
            /\ limit >= MIN_CONTENT_WIDTH => content_width <= limit
            /\ limit < MIN_CONTENT_WIDTH => content_width = MIN_CONTENT_WIDTH

\* C2 witness: a line longer than a terminal known from COLUMNS=120 is capped
\* at 118.
C2_Witness ==
    /\ pc = "width"
    /\ term.live = <<>>
    /\ KnownWidth(term) = <<120>>
    /\ args.message = LongText
    /\ content_width = 118

\* C3: the floor wins over the terminal cap: on a terminal narrower than 40
\* columns the content width is exactly 40 for every message; a limit of at
\* least 40 caps the clamped width.
C3_FloorWins ==
    (pc = "width" /\ KnownWidth(term) # <<>>) =>
        LET W == KnownWidth(term)[1]
            limit == SatSub(W, 2)
            clamped ==
                Clamp(measured_len(frame_for(args.level), args.title, args.code,
                          args.message, args.context, args.hint, args.location)
                          + FRAME_MARGIN,
                      MIN_CONTENT_WIDTH, MAX_CONTENT_WIDTH)
        IN  /\ W < MIN_CONTENT_WIDTH => content_width = MIN_CONTENT_WIDTH
            /\ limit < MIN_CONTENT_WIDTH => content_width = MIN_CONTENT_WIDTH
            /\ limit >= MIN_CONTENT_WIDTH => content_width = Min(clamped, limit)

\* C3 witness: a 20-column terminal and a 150-column message give width 40.
C3_Witness ==
    /\ pc = "width"
    /\ term.live = <<20>>
    /\ args.message = LongText
    /\ content_width = MIN_CONTENT_WIDTH

\* ---------------------------------------------- two calls, one after the other

PairArgs ==
    {ArgsOf("Error", ShortTitle, TheCode, ShortText, None, None, None),
     ArgsOf("Info", ShortTitle, TheCode, TwoLines, TwoLines, MidText, ShortLocation),
     ArgsOf("Error", ShortTitle, TheCode, OverflowText, None, ShortText, None),
     ArgsOf("Error", Rep("x", 20), TheCode, ShortText, None, None, None)}

PairInit ==
    /\ args \in PairArgs
    /\ term \in {[live |-> <<>>, columns |-> None], [live |-> <<20>>, columns |-> None]}
    /\ colorize \in BOOLEAN
    /\ wrap_algorithm = "OptimalFit"
    /\ clock = 35999
    /\ pc = "idle"
    /\ quota = PairCalls
    /\ InitRest
    /\ NoThreads

SpecPair == PairInit /\ [][Next]_vars

\* ------------------------------------------- concurrent print_pretty_message

Threads == 1..NumThreads

\* A stderr lock that is granted while another thread holds it.
CanLock_unguarded(t) == TRUE

\* io::stderr().lock(): granted when no other thread holds the lock
CanLock(t) == lock = 0

\* the bytes of row i of box k of thread t, as one write
RowChunk(t, k, i) ==
    [s |-> <<"x">>, n |-> t_calls[t].row_bytes, owner |-> t, box |-> k, row |-> i]

ThreadsInit ==
    /\ args = ArgsOf("Error", ShortTitle, TheCode, ShortText, None, None, None)
    /\ term = [live |-> <<>>, columns |-> None]
    /\ colorize = TRUE
    /\ wrap_algorithm = "OptimalFit"
    /\ clock = 35999
    /\ pc = "threads"
    /\ quota = 0
    /\ InitRest
    /\ NoTracing
    /\ t_pc = [t \in Threads |-> [at |-> "idle", row |-> 0, box |-> 0]]
    /\ t_buf = [t \in Threads |-> EmptyBuf]
    /\ t_calls \in [Threads -> [left : {CallsPerThread}, row_bytes : {SmallRow, BigRow}]]
    /\ lock = 0
    /\ tty = <<>>

main == <<args, term, clock, colorize, wrap_algorithm, stderr_broken, entry, pc,
          content_width, timestamp, wrapped, idx, render_res, flush_res, buf, dev, vec,
          ret, last, quota, io_log, p_in, p_out,
          TRACING_INITIALIZED, subscriber, inits, emitted, disp>>

\* let mut handle = io::BufWriter::new(stderr.lock());
ThreadLock(t) ==
    /\ t_pc[t].at = "idle"
    /\ t_calls[t].left > 0
    /\ CanLock(t)
    /\ lock' = t
    /\ t_calls' = [t_calls EXCEPT ![t].left = @ - 1]
    /\ t_pc' = [t_pc EXCEPT ![t] = [at |-> "rows", row |-> 1, box |-> @.box + 1]]
    /\ t_buf' = [t_buf EXCEPT ![t] = EmptyBuf]
    /\ UNCHANGED <<main, tty>>

\* the writes of one row by render_pretty_message
ThreadWriteRow(t) ==
    /\ t_pc[t].at = "rows"
    /\ LET r == BufWriteAll([buf |-> t_buf[t], dev |-> tty, ok |-> TRUE, log |-> <<>>],
                            RowChunk(t, t_pc[t].box, t_pc[t].row))
       IN  /\ t_buf' = [t_buf EXCEPT ![t] = r.buf]
           /\ tty' = r.dev
    /\ t_pc' = [t_pc EXCEPT ![t] =
                   IF @.row = RowsPerBox THEN [@ EXCEPT !.at = "rendered"]
                   ELSE [@ EXCEPT !.row = @ + 1]]
    /\ UNCHANGED <<main, t_calls, lock>>

\* let _ = handle.flush();
ThreadFlush(t) ==
    /\ t_pc[t].at = "rendered"
    /\ LET r == flush_buf([buf |-> t_buf[t], dev |-> tty, ok |-> TRUE, log |-> <<>>])
       IN  /\ t_buf' = [t_buf EXCEPT ![t] = r.buf]
           /\ tty' = r.dev
    /\ t_pc' = [t_pc EXCEPT ![t].at = "flushed"]
    /\ UNCHANGED <<main, t_calls, lock>>

\* the return: the BufWriter is dropped, then the lock it owns
ThreadReturn(t) ==
    /\ t_pc[t].at = "flushed"
    /\ LET r == flush_buf([buf |-> t_buf[t], dev |-> tty, ok |-> TRUE, log |-> <<>>])
       IN  /\ t_buf' = [t_buf EXCEPT ![t] = EmptyBuf]
           /\ tty' = r.dev
    /\ lock' = IF lock = t THEN 0 ELSE lock
    /\ t_pc' = [t_pc EXCEPT ![t].at = "idle"]
    /\ UNCHANGED <<main, t_calls>>

ThreadsNext ==
    \/ \E t \in Threads : ThreadLock(t)
    \/ \E t \in Threads : ThreadWriteRow(t)
    \/ \E t \in Threads : ThreadFlush(t)
    \/ \E t \in Threads : ThreadReturn(t)

SpecThreads == ThreadsInit /\ [][ThreadsNext]_vars

\* ------------------------------------------------------ what was written

\* the bytes the running call has handed to its sink, in order
Written == IF entry = "print" THEN dev \o buf.data ELSE vec

\* the places of the writes that end a row
NewlinesOf(w) == {i \in 1..Len(w) : w[i].s = <<NL>>}

\* the writes of the last complete row of w, which ends with a newline
LastRow(w) ==
    LET ends == NewlinesOf(w) \ {Len(w)}
        from == IF ends = {} THEN 0 ELSE CHOOSE i \in ends : \A j \in ends : j <= i
    IN  SubSeq(w, from + 1, Len(w) - 1)

RECURSIVE SumWidth(_, _)
SumWidth(row, i) ==
    IF i > Len(row) THEN 0 ELSE row[i].n * visible_len(row[i].s) + SumWidth(row, i + 1)

\* the visible width of a row between its two border glyphs
InnerWidth(row) == SumWidth(SubSeq(row, 2, Len(row) - 1), 1)

\* a row was just completed, and it is the n-th line of the output
JustWroteLine(n) ==
    /\ pc \notin {"idle", "start", "threads", "compute", "top"}
    /\ Len(Written) > 0
    /\ Written[Len(Written)].s = <<NL>>
    /\ Cardinality(NewlinesOf(Written)) = n

\* ------------------------------------------------------------------ claims

\* both entry points have returned from a render that met no failure and
\* read the same clock
BothRendered ==
    /\ last.print.ret = "unit"
    /\ last.print.render_res = "Ok"
    /\ last.print.flush_res = "Ok"
    /\ last.to_string.ret = "Ok"
    /\ last.print.ts = last.to_string.ts

\* C4: for the same inputs, clock and terminal, what print_pretty_message
\* hands to stderr through render_pretty_message and what
\* pretty_message_to_string returns are the same bytes (the same writes of
\* the same strings, in the same order).
C4_SinkEqualsString ==
    BothRendered => last.print.bytes = last.to_string.bytes

\* C4 witness: both entry points rendered a box with a location, a context
\* and a hint at the same clock.
C4_Witness ==
    /\ BothRendered
    /\ IsSome(args.location) /\ IsSome(args.context) /\ IsSome(args.hint)
    /\ Len(last.print.bytes) > 20
    /\ last.print.bytes = last.to_string.bytes

\* C5 as stated: every failure of a render is reported to the caller as an
\* error value by every public entry point: a render or a flush that failed
\* is answered with Err, by print_pretty_message as by
\* pretty_message_to_string.
C5_FailuresReported ==
    /\ (last.print.render_res = "Err" \/ last.print.flush_res = "Err")
           => last.print.ret = "Err"
    /\ last.to_string.render_res = "Err" => last.to_string.ret = "Err"

\* the rows of each box of the terminal are next to each other
Contiguous(out) ==
    \A i, j \in 1..Len(out) :
        (i < j /\ out[i].owner = out[j].owner /\ out[i].box = out[j].box) =>
            \A k \in i..j : out[k].owner = out[i].owner /\ out[k].box = out[i].box

\* C6: a thread holds the stderr lock from before the first byte of its box
\* to after its final flush (whenever it is inside print_pretty_message it
\* is the holder, and it holds no unwritten byte outside), so in every
\* interleaving the rows of each box reach the terminal contiguously.
C6_BoxesContiguous ==
    /\ \A t \in Threads : t_pc[t].at # "idle" => lock = t
    /\ \A t \in Threads : t_pc[t].at = "idle" => t_buf[t] = EmptyBuf
    /\ Contiguous(tty)

\* C6 witness: two threads have printed, one of them a box larger than the
\* buffer, which reached the terminal in several writes while the other
\* thread was waiting.
C6_Witness ==
    /\ \E t, u \in Threads :
        /\ t # u
        /\ t_calls[t].row_bytes = BigRow
        /\ \E i, j \in 1..Len(tty) : tty[i].owner = t /\ tty[j].owner = u
        /\ t_calls[t].left = 0 /\ t_calls[u].left = 0
    /\ \A t \in Threads : t_pc[t].at = "idle"
    /\ Len(tty) = NumThreads * CallsPerThread * RowsPerBox

\* C7 as stated: every content row emitted for a wrapped line of the
\* message, the context or the hint has a visible width (indent plus text)
\* of at most content_width.
C7_WrappedRowsFit ==
    (pc \in {"message", "context", "hint", "bottom"} /\ idx > 1
        /\ Written[Len(Written)].s = <<NL>>)
        => InnerWidth(LastRow(Written)) <= content_width

\* C8 as stated: the header row has a visible width of exactly
\* content_width between its two border glyphs.
C8_HeaderExact ==
    JustWroteLine(3) => InnerWidth(LastRow(Written)) = content_width

\* C9 as stated: when a location is present its row has a visible width of
\* exactly content_width between the borders.
C9_LocationExact ==
    (JustWroteLine(4) /\ IsSome(args.location))
        => InnerWidth(LastRow(Written)) = content_width

\* a divider with plain vertical glyphs
PlainDivider(f, width) ==
    <<Chunk(f.border_v), Chunk(f.line_dim_color), [s |-> <<"H">>, n |-> width],
      Chunk(RESET), Chunk(f.border_v), NewlineChunk(1)>>

RECURSIVE RowsOf(_, _, _, _, _)
\* the content rows of the texts lo..hi of contents
RowsOf(f, width, contents, lo, hi) ==
    IF lo > hi THEN <<>>
    ELSE IF lo = hi THEN draw_row(f, width, contents[lo])
    ELSE LET mid == (lo + hi) \div 2
             left == RowsOf(f, width, contents, lo, mid)
         IN  IF Len(left) >= 0 THEN left \o RowsOf(f, width, contents, mid + 1, hi)
             ELSE left

\* the sections of a box, in the order of the specification, for the
\* wrapped lines wm of the message, wc of the context and wh of the hint
SectionsInOrder(f, width, ts, wm, wc, wh) ==
    <<NewlineChunk(1)>>
        \o <<Chunk(f.border_tl), Chunk(f.line_color), [s |-> <<"H">>, n |-> width],
             Chunk(RESET), Chunk(f.border_tr), NewlineChunk(1)>>
        \o HeaderChunks(f, width, args.title, args.code, ts)
        \o (IF IsSome(args.location)
                THEN draw_row(f, width, LocationContent(args.location)) ELSE <<>>)
        \o PlainDivider(f, width)
        \o draw_row(f, width, <<>>)
        \o RowsOf(f, width, [k \in 1..Len(wm) |-> MessageContent(wm[k])], 1, Len(wm))
        \o draw_row(f, width, <<>>)
        \o (IF IsSome(args.context)
                THEN draw_row(f, width, ContextLabel)
                         \o RowsOf(f, width, [k \in 1..Len(wc) |-> ContextContent(wc[k])],
                                   1, Len(wc))
                         \o draw_row(f, width, <<>>)
                ELSE <<>>)
        \o (IF IsSome(args.hint)
                THEN PlainDivider(f, width)
                         \o draw_row(f, width, HintLabel)
                         \o RowsOf(f, width, [k \in 1..Len(wh) |-> HintContent(wh[k])],
                                   1, Len(wh))
                ELSE <<>>)
        \o <<Chunk(f.border_bl), Chunk(f.line_color), [s |-> <<"H">>, n |-> width],
             Chunk(RESET), Chunk(f.border_br), NewlineChunk(2)>>

\* C10: a render that returns Ok has written its sections once each and in
\* the fixed order: blank line, top border, header, location iff present,
\* plain divider, blank row, message rows, blank row, iff context the
\* CONTEXT: label, context rows and a blank row, iff hint a plain divider,
\* the HINT label and hint rows, bottom border, two newlines; and no
\* T-junction glyph.
C10_SectionOrder ==
    (pc = "rendered" /\ render_res = "Ok") =>
        /\ \E wm \in wrap(args.message, WrapWidth) :
           \E wc \in (IF IsSome(args.context) THEN wrap(args.context, WrapWidth)
                      ELSE {<<>>}) :
           \E wh \in (IF IsSome(args.hint) THEN wrap(args.hint, content_width - 6)
                      ELSE {<<>>}) :
               Written = SectionsInOrder(frame, content_width, timestamp, wm, wc, wh)
        /\ \A i \in 1..Len(Written) :
               Written[i].s \notin {frame.border_joint_left, frame.border_joint_right}

\* C10 witness: a render with a location, a context and a hint returned Ok.
C10_Witness ==
    /\ pc = "rendered"
    /\ render_res = "Ok"
    /\ IsSome(args.location) /\ IsSome(args.context) /\ IsSome(args.hint)
    /\ Len(Written) > 40

\* ------------------------------------------- functions applied on their own

\* a renderer that is not called
RenderAtRest ==
    /\ args = ArgsOf("Error", ShortTitle, TheCode, ShortText, None, None, None)
    /\ term = [live |-> <<>>, columns |-> None]
    /\ colorize = TRUE
    /\ wrap_algorithm = "OptimalFit"
    /\ clock = 35999
    /\ quota = 0
    /\ stderr_broken = FALSE
    /\ entry = "none"
    /\ content_width = 0
    /\ timestamp = <<>>
    /\ wrapped = <<>>
    /\ idx = 0
    /\ render_res = "none"
    /\ flush_res = "none"
    /\ buf = EmptyBuf
    /\ dev = <<>>
    /\ vec = <<>>
    /\ io_log = <<>>
    /\ ret = "none"
    /\ last = [print |-> NoCall, to_string |-> NoCall]

\* the rest of the state where one function is applied on its own
ProbeRest == RenderAtRest /\ NoThreads

\* the strings of at most n characters of the alphabet A
StringsOver(A, n) == UNION {[1..k -> A] : k \in 0..n}

\* an escape, the two characters of a color sequence, and characters of
\* width 1, 2 and 0
VisAlphabet == {ESC, "[", "m", "a", "WIDE", "ZW"}

VisibleInit ==
    /\ pc = "probe"
    /\ p_in \in StringsOver(VisAlphabet, VisMaxLen)
    /\ p_out = <<>>
    /\ ProbeRest

\* visible_len(s)
MeasureVisible ==
    /\ pc = "probe"
    /\ p_out' = <<visible_len(p_in)>>
    /\ pc' = "probed"
    /\ UNCHANGED <<env, clock, stderr_broken, entry, content_width, timestamp, wrapped,
                   idx, render_res, flush_res, sinks, ret, last, quota, threads, p_in, tracing>>

SpecVisible == VisibleInit /\ [][MeasureVisible]_vars

\* the place i of s lies in an escape sequence: an ESC at or before it has
\* no m between itself and i
InEscape(s, i) ==
    \E j \in 1..i : s[j] = ESC /\ \A k \in (j + 1)..(i - 1) : s[k] # "m"

\* the places of s outside the escape sequences whose character has width w
OutsideOfWidth(s, w) ==
    {i \in 1..Len(s) : ~InEscape(s, i) /\ CharWidth(s[i]) = w}

\* C11: visible_len(s) is the sum of the display widths (0, 1 or 2) of the
\* characters of s outside escape sequences, a sequence running from an ESC
\* to the next m inclusive, or to the end of s when no m follows; it is
\* defined (a natural number) for every string.
C11_VisibleLen ==
    pc = "probed" =>
        /\ p_out[1] \in Nat
        /\ p_out[1] = Cardinality(OutsideOfWidth(p_in, 1))
                          + 2 * Cardinality(OutsideOfWidth(p_in, 2))

\* C11 witness: a string with a closed sequence, a wide character after it
\* and an unterminated sequence at its end was measured as 2.
C11_Witness ==
    /\ pc = "probed"
    /\ p_in = <<ESC, "m", "WIDE", ESC>>
    /\ p_out = <<2>>

\* plain text: characters of width 1 and 2, and an m that ends no sequence
RowAlphabet == {"a", "m", "WIDE"}

\* the color sequences inserted into plain text
ColorSequences == {Red, Sgr(<<"1", ";", "3", "3">>), RESET}

RECURSIVE InsertFrom(_, _, _, _)
\* text from the place i on, with seq inserted before every place of at
\* (the place Len(text) + 1 is its end)
InsertFrom(text, at, seq, i) ==
    IF i > Len(text) + 1 THEN <<>>
    ELSE (IF i \in at THEN seq ELSE <<>>)
             \o (IF i <= Len(text) THEN <<text[i]>> ELSE <<>>)
             \o InsertFrom(text, at, seq, i + 1)

RowInputs ==
    {[base |-> b, colored |-> InsertFrom(b, at, seq, 1), width |-> w] :
        b \in StringsOver(RowAlphabet, RowMaxLen),
        at \in SUBSET (1..(RowMaxLen + 1)),
        seq \in ColorSequences,
        w \in 0..RowMaxWidth}

RowInit ==
    /\ pc = "probe"
    /\ p_in \in RowInputs
    /\ p_out = <<>>
    /\ ProbeRest

\* draw_row(writer, frame, content_width, content) for the plain and for
\* the colored content
DrawRow ==
    /\ pc = "probe"
    /\ p_out' = [plain |-> draw_row(frame, p_in.width, p_in.base),
                 colored |-> draw_row(frame, p_in.width, p_in.colored)]
    /\ pc' = "probed"
    /\ UNCHANGED <<env, clock, stderr_broken, entry, content_width, timestamp, wrapped,
                   idx, render_res, flush_res, sinks, ret, last, quota, threads, p_in, tracing>>

SpecRow == RowInit /\ [][DrawRow]_vars

\* the writes of a row between its content and its closing border
PaddingOf(row) == SubSeq(row, 3, Len(row) - 2)

RECURSIVE SpacesFrom(_, _)
SpacesFrom(pad, i) == IF i > Len(pad) THEN 0 ELSE pad[i].n + SpacesFrom(pad, i + 1)

\* the number of padding bytes of a row
SpacesOf(row) == SpacesFrom(PaddingOf(row), 1)

\* a row is border, the content unchanged, plain spaces, border, newline
RowShape(row, content) ==
    /\ Len(row) >= 4
    /\ row[1] = Chunk(frame.border_v)
    /\ row[2] = Chunk(content)
    /\ \A i \in 1..Len(PaddingOf(row)) : PaddingOf(row)[i].s = <<" ">>
    /\ row[Len(row) - 1] = Chunk(frame.border_v)
    /\ row[Len(row)] = NewlineChunk(1)

\* C12 as stated: for every content and every content_width draw_row
\* writes border, content, p plain spaces, border, newline with
\* visible_len(content) + p = content_width.
C12_PaddingExact ==
    pc = "probed" =>
        /\ RowShape(p_out.colored, p_in.colored)
        /\ visible_len(p_in.colored) + SpacesOf(p_out.colored) = p_in.width

\* C13: two contents that differ only by inserted color sequences get the
\* same number of padding spaces at the same content_width, and their rows
\* have the same visible width.
C13_PaddingIgnoresColor ==
    pc = "probed" =>
        /\ SpacesOf(p_out.plain) = SpacesOf(p_out.colored)
        /\ InnerWidth(SubSeq(p_out.plain, 1, Len(p_out.plain) - 1))
               = InnerWidth(SubSeq(p_out.colored, 1, Len(p_out.colored) - 1))

\* C13 witness: a plain text and the same text with two color sequences in
\* it were both padded by 2 spaces to the width 5.
C13_Witness ==
    /\ pc = "probed"
    /\ p_in.base = <<"a", "WIDE">>
    /\ p_in.width = 5
    /\ Len(p_in.colored) > Len(p_in.base) + 4
    /\ SpacesOf(p_out.plain) = 2
    /\ SpacesOf(p_out.colored) = 2

\* C14 as stated: once a write of a render has failed, the call attempts no
\* further write or flush on its sink: the failed attempt is the last one
\* of the call and the only failed one.
C14_StopsAtFirstError ==
    render_res = "Err" =>
        /\ Len(io_log) > 0
        /\ io_log[Len(io_log)] = "err"
        /\ \A i \in 1..(Len(io_log) - 1) : io_log[i] = "ok"

\* what a first call with the arguments of the behaviour writes when it
\* formats the timestamp ts: the box at the width computed for them
FreshOutputs(ts) ==
    LET w == compute_content_width(frame, args.title, args.code, args.message,
                 args.context, args.hint, args.location)
        ww == Max(SatSub(w, 4), 10)
    IN  {SectionsInOrder(frame, w, ts, wm, wc, wh) :
            wm \in wrap(args.message, ww),
            wc \in (IF IsSome(args.context) THEN wrap(args.context, ww) ELSE {<<>>}),
            wh \in (IF IsSome(args.hint) THEN wrap(args.hint, w - 6) ELSE {<<>>})}

\* C15: no state survives a call: whatever calls came before, successful
\* or failed at any write, a call that succeeds has written what a first
\* call with the same arguments, clock and terminal writes.
C15_NoStateSurvives ==
    /\ last.to_string.ret = "Ok" =>
           last.to_string.bytes \in FreshOutputs(last.to_string.ts)
    /\ (last.print.render_res = "Ok" /\ last.print.flush_res = "Ok") =>
           last.print.bytes \in FreshOutputs(last.print.ts)

\* C15 witness: pretty_message_to_string has returned a box after a
\* print_pretty_message whose flush had failed.
C15_Witness ==
    /\ pc = "idle"
    /\ quota = 0
    /\ ret = "Ok"
    /\ last.print.flush_res = "Err"
    /\ last.to_string.ret = "Ok"
    /\ IsSome(args.hint)
    /\ last.to_string.bytes \in FreshOutputs(last.to_string.ts)

\* C16: the content width does not depend on the clock: two calls with the
\* same arguments and terminal compute the same width whatever the time
\* each of them formats.
C16_WidthIgnoresClock ==
    (last.print.ret # "none" /\ last.to_string.ret # "none") =>
        last.print.width = last.to_string.width

\* C16 witness: two calls whose width is set by the header row formatted
\* 09:59:59 and 10:00:00 and computed the same width.
C16_Witness ==
    /\ last.print.ret # "none"
    /\ last.to_string.ret # "none"
    /\ last.print.ts # last.to_string.ts
    /\ last.print.width = 50
    /\ last.to_string.width = 50

\* ----------------------------------------------------------- tracing_setup

InitThreads == 1..NumInitThreads

\* TracingConfig: its output, and whether the directory of its log file
\* can be written (it matters for File and Both only)
TracingConfigs ==
    {[output |-> o, dir_ok |-> TRUE] : o \in {"Stdout", "Stderr", "File", "Both"}}
        \cup {[output |-> o, dir_ok |-> FALSE] : o \in {"File", "Both"}}

NoConfig == [output |-> "none", dir_ok |-> TRUE]

TracingInit ==
    /\ pc = "tracing"
    /\ p_in = <<>>
    /\ p_out = <<>>
    /\ RenderAtRest
    /\ t_pc = <<>> /\ t_buf = <<>> /\ t_calls = <<>> /\ lock = 0 /\ tty = <<>>
    /\ TRACING_INITIALIZED = FALSE
    /\ subscriber = "none"
    /\ inits = [t \in InitThreads |->
                   [at |-> "idle", config |-> NoConfig, left |-> InitCallsPerThread,
                    done |-> <<>>, seen |-> <<>>]]
    /\ emitted = <<>>
    /\ disp = [fn |-> "none", step |-> 0]

rendering == <<args, term, clock, colorize, wrap_algorithm, stderr_broken, entry, pc,
               content_width, timestamp, wrapped, idx, render_res, flush_res, buf, dev,
               vec, ret, last, quota, io_log, p_in, p_out, t_pc, t_buf, t_calls, lock,
               tty>>

\* the outcome of a finished init call
Outcome(passed, installed, cause, result) ==
    [passed |-> passed, installed |-> installed, cause |-> cause, ret |-> result]

\* A load in place of the swap: the flag is left as it was.
swap_stores_nothing == TRACING_INITIALIZED

\* the value TRACING_INITIALIZED.swap(true, Ordering::SeqCst) stores
swap_stores == TRUE

\* init_tracing_with_config(config): TRACING_INITIALIZED.swap(true, SeqCst)
\* and the return of AlreadyInitialized when it was set
InitSwap(t) ==
    /\ inits[t].at = "idle"
    /\ inits[t].left > 0
    /\ TRACING_INITIALIZED' = swap_stores
    /\ IF TRACING_INITIALIZED
           THEN inits' = [inits EXCEPT ![t].left = @ - 1,
                              ![t].done = Append(@,
                                  Outcome(FALSE, FALSE, "none", "AlreadyInitialized"))]
           ELSE \E c \in TracingConfigs :
                    inits' = [inits EXCEPT ![t].left = @ - 1, ![t].at = "passed",
                                  ![t].config = c]
    /\ UNCHANGED <<rendering, subscriber, emitted, disp>>

\* the rest of init_tracing_with_config: init_stdout, init_stderr,
\* init_file or init_both, then Ok(()). rolling::daily panics when the log
\* file cannot be created, and SubscriberInitExt::init panics when a global
\* default subscriber is already set.
InitDispatch(t) ==
    /\ inits[t].at = "passed"
    /\ LET c == inits[t].config
           file_fails == c.output \in {"File", "Both"} /\ ~c.dir_ok
           global_fails == subscriber # "none"
       IN  IF file_fails
               THEN /\ inits' = [inits EXCEPT ![t].at = "dead",
                                     ![t].done = Append(@,
                                         Outcome(TRUE, FALSE, "file", "panic"))]
                    /\ UNCHANGED subscriber
           ELSE IF global_fails
               THEN /\ inits' = [inits EXCEPT ![t].at = "dead",
                                     ![t].done = Append(@,
                                         Outcome(TRUE, FALSE, "global", "panic"))]
                    /\ UNCHANGED subscriber
           ELSE /\ inits' = [inits EXCEPT ![t].at = "idle",
                                 ![t].done = Append(@, Outcome(TRUE, TRUE, "none", "Ok"))]
                /\ subscriber' = "init"
    /\ UNCHANGED <<rendering, TRACING_INITIALIZED, emitted, disp>>

\* is_initialized(): TRACING_INITIALIZED.load(SeqCst); seen keeps what it
\* returned and whether a global subscriber was installed at that moment
CheckInitialized(t) ==
    /\ inits[t].at = "idle"
    /\ inits' = [inits EXCEPT ![t].seen =
                    <<[flag |-> TRACING_INITIALIZED, installed |-> subscriber # "none"]>>]
    /\ UNCHANGED <<rendering, TRACING_INITIALIZED, subscriber, emitted, disp>>

\* other code of the process sets the global default subscriber
ForeignInstall ==
    /\ subscriber = "none"
    /\ subscriber' = "foreign"
    /\ UNCHANGED <<rendering, TRACING_INITIALIZED, inits, emitted, disp>>

TracingNext ==
    \/ \E t \in InitThreads : InitSwap(t)
    \/ \E t \in InitThreads : InitDispatch(t)
    \/ \E t \in InitThreads : CheckInitialized(t)
    \/ ForeignInstall

SpecTracing == TracingInit /\ [][TracingNext]_vars

\* the finished init calls: <<thread, number of the call>>
FinishedInits == {<<t, k>> : t \in InitThreads, k \in 1..InitCallsPerThread} \cap
                     {x \in InitThreads \X (1..InitCallsPerThread) :
                         x[2] <= Len(inits[x[1]].done)}

OutcomeOf(x) == inits[x[1]].done[x[2]]

\* C17 as stated: once the calls made have all finished, exactly one of
\* them has passed the initialized check and installed a subscriber, and
\* every other call has returned AlreadyInitialized and installed nothing.
C17_InitializedOnce ==
    (FinishedInits # {} /\ \A t \in InitThreads : inits[t].at # "passed") =>
        /\ Cardinality({x \in FinishedInits :
               OutcomeOf(x).passed /\ OutcomeOf(x).installed}) = 1
        /\ \A x \in FinishedInits :
               ~OutcomeOf(x).passed =>
                   OutcomeOf(x).ret = "AlreadyInitialized" /\ ~OutcomeOf(x).installed

\* C18 as stated: a call whose log file cannot be created returns
\* FileCreationFailed, a call that cannot set the global subscriber returns
\* SetGlobalFailed; neither panics nor returns Ok.
C18_FailuresReturned ==
    \A x \in FinishedInits :
        /\ OutcomeOf(x).cause = "file" => OutcomeOf(x).ret = "FileCreationFailed"
        /\ OutcomeOf(x).cause = "global" => OutcomeOf(x).ret = "SetGlobalFailed"
        /\ OutcomeOf(x).ret # "panic"

\* C19 as stated: is_initialized() returns false before any init call, and
\* whenever it returns true the global subscriber is already installed.
C19_InitializedMeansInstalled ==
    \A t \in InitThreads :
        inits[t].seen # <<>> =>
            /\ inits[t].seen[1].flag => inits[t].seen[1].installed
            /\ (\A u \in InitThreads :
                    inits[u].left = InitCallsPerThread) => ~inits[t].seen[1].flag

\* ----------------------------------------------------------- error_display

\* the title display_error gives each variant of GmnError
ErrorTitle(variant) ==
    CASE variant = "Config" ->
        <<"C", "o", "n", "f", "i", "g", "u", "r", "a", "t", "i", "o", "n", " ", "E", "r",
        "r", "o", "r">>
      [] variant = "Tracing" ->
        <<"T", "r", "a", "c", "i", "n", "g", " ", "E", "r", "r", "o", "r">>
      [] variant = "Database" ->
        <<"D", "a", "t", "a", "b", "a", "s", "e", " ", "E", "r", "r", "o", "r">>
      [] variant = "Auth" ->
        <<"A", "u", "t", "h", "e", "n", "t", "i", "c", "a", "t", "i", "o", "n", " ", "E",
        "r", "r", "o", "r">>
      [] variant = "RateLimit" ->
        <<"R", "a", "t", "e", " ", "L", "i", "m", "i", "t", " ", "E", "x", "c", "e", "e",
        "d", "e", "d">>
      [] variant = "Api" ->
        <<"A", "P", "I", " ", "E", "r", "r", "o", "r">>
      [] variant = "Internal" ->
        <<"I", "n", "t", "e", "r", "n", "a", "l", " ", "E", "r", "r", "o", "r">>

GmnErrorVariants ==
    {"Config", "Tracing", "Database", "Auth", "RateLimit", "Api", "Internal"}

\* GmnError values, as what code(), to_string(), context() and hint()
\* return for them
GmnErrors ==
    {[variant |-> v, code |-> TheCode, message |-> ShortText, context |-> None,
      hint |-> None] : v \in GmnErrorVariants}
    \cup {[variant |-> "Config", code |-> TheCode, message |-> TwoWords,
           context |-> TwoLines, hint |-> MidText]}

\* the arguments of display_warning, display_info and display_success
DisplayInputs ==
    {[title |-> ShortTitle, code |-> TheCode, message |-> ShortText, context |-> None,
      hint |-> None],
     [title |-> ShortTitle, code |-> TheCode, message |-> TwoLines, context |-> TwoLines,
      hint |-> MidText]}

\* the macro each display function logs with: tracing::error!, warn!, info!
event_level(fn) ==
    CASE fn = "display_error" -> "ERROR"
      [] fn = "display_warning" -> "WARN"
      [] fn = "display_info" -> "INFO"
      [] fn = "display_success" -> "INFO"

\* the PrettyMessageLevel each display function prints with
display_level(fn) ==
    CASE fn = "display_error" -> "Error"
      [] fn = "display_warning" -> "Warning"
      [] fn = "display_info" -> "Info"
      [] fn = "display_success" -> "Success"

\* A display function that prints before it logs.
display_body_print_first == <<"print", "event">>

\* the two statements every display function ends with, in their order:
\* the tracing macro, then print_pretty_message
display_body == <<"event", "print">>

DisplayInit ==
    /\ args = ArgsOf("Error", ShortTitle, TheCode, ShortText, None, None, None)
    /\ term = [live |-> <<>>, columns |-> None]
    /\ colorize = TRUE
    /\ wrap_algorithm = "OptimalFit"
    /\ clock = 35999
    /\ pc = "idle"
    /\ quota = DisplayCalls
    /\ InitRest
    /\ NoThreads

\* display_error(error) is called: code, message, context, hint, the
\* location of the caller and the title of the variant
DisplayError ==
    /\ pc = "idle"
    /\ quota > 0
    /\ quota' = quota - 1
    /\ \E e \in GmnErrors :
           disp' = [fn |-> "display_error", step |-> 1, title |-> ErrorTitle(e.variant),
                    code |-> e.code, message |-> e.message, context |-> e.context,
                    hint |-> e.hint, location |-> ShortLocation]
    /\ pc' = "display"
    /\ UNCHANGED <<env, clock, stderr_broken, entry, content_width, timestamp, wrapped,
                   idx, render_res, flush_res, sinks, ret, last, threads, probe,
                   TRACING_INITIALIZED, subscriber, inits, emitted>>

\* display_warning, display_info or display_success is called
DisplayOther ==
    /\ pc = "idle"
    /\ quota > 0
    /\ quota' = quota - 1
    /\ \E fn \in {"display_warning", "display_info", "display_success"} :
       \E i \in DisplayInputs :
           disp' = [fn |-> fn, step |-> 1, title |-> i.title, code |-> i.code,
                    message |-> i.message, context |-> i.context, hint |-> i.hint,
                    location |-> ShortLocation]
    /\ pc' = "display"
    /\ UNCHANGED <<env, clock, stderr_broken, entry, content_width, timestamp, wrapped,
                   idx, render_res, flush_res, sinks, ret, last, threads, probe,
                   TRACING_INITIALIZED, subscriber, inits, emitted>>

\* the event of the display call in progress
EventOf(d) ==
    [level |-> event_level(d.fn), code |-> d.code, title |-> d.title,
     message |-> d.message, context |-> d.context, hint |-> d.hint,
     location |-> d.location]

\* tracing::error!(..), tracing::warn!(..) or tracing::info!(..)
DisplayEmitEvent ==
    /\ pc = "display"
    /\ disp.step <= Len(display_body)
    /\ display_body[disp.step] = "event"
    /\ emitted' = Append(emitted, EventOf(disp))
    /\ disp' = [disp EXCEPT !.step = @ + 1]
    /\ UNCHANGED <<rendering, TRACING_INITIALIZED, subscriber, inits>>

\* print_pretty_message(level, title, code, message, context, hint,
\* Some(&location_str)) is entered
DisplayPrint ==
    /\ pc = "display"
    /\ disp.step <= Len(display_body)
    /\ display_body[disp.step] = "print"
    /\ disp' = [disp EXCEPT !.step = @ + 1]
    /\ args' = ArgsOf(display_level(disp.fn), disp.title, disp.code, disp.message,
                      disp.context, disp.hint, disp.location)
    /\ entry' = "print"
    /\ pc' = "compute"
    /\ buf' = EmptyBuf
    /\ dev' = <<>>
    /\ io_log' = <<>>
    /\ ret' = "none"
    /\ UNCHANGED <<term, colorize, wrap_algorithm, clock, stderr_broken, content_width,
                   timestamp, wrapped, idx, render_res, flush_res, vec, last, quota,
                   threads, probe, TRACING_INITIALIZED, subscriber, inits, emitted>>

\* the display function returns
DisplayReturn ==
    /\ pc = "display"
    /\ disp.step > Len(display_body)
    /\ pc' = "idle"
    /\ disp' = [disp EXCEPT !.fn = "none"]
    /\ UNCHANGED <<env, clock, stderr_broken, entry, content_width, timestamp, wrapped,
                   idx, render_res, flush_res, sinks, ret, last, quota, threads, probe,
                   TRACING_INITIALIZED, subscriber, inits, emitted>>

DisplayNext ==
    \/ DisplayError
    \/ DisplayOther
    \/ DisplayEmitEvent
    \/ DisplayPrint
    \/ DisplayReturn
    \/ ComputeContentWidth
    \/ RenderTop
    \/ RenderHeader
    \/ RenderLocation
    \/ RenderDivider
    \/ RenderBlank
    \/ RenderMessageLine
    \/ RenderMessageEnd
    \/ RenderContextLabel
    \/ RenderContextLine
    \/ RenderContextEnd
    \/ RenderHintDivider
    \/ RenderHintLabel
    \/ RenderHintLine
    \/ RenderBottom
    \/ PrintFlush
    \/ PrintReturn
    \/ Tick
    \/ BreakStderr

SpecDisplay == DisplayInit /\ [][DisplayNext]_vars

\* the level the specification gives the event of each display function
SpecifiedLevel(fn) ==
    CASE fn = "display_error" -> "ERROR"
      [] fn = "display_warning" -> "WARN"
      [] fn = "display_info" -> "INFO"
      [] fn = "display_success" -> "INFO"
      [] OTHER -> "none"

\* C20: log before display: whenever print_pretty_message is running for a
\* display call, and so whenever a byte of its box may have been written,
\* the event of that call has been emitted already, at the level of its
\* function (error, warn, info, info) and with the code, title, message,
\* context, hint and location the box is printed with.
C20_LogBeforeDisplay ==
    /\ (disp.fn # "none" /\ pc \notin {"idle", "display"}) =>
           /\ Len(emitted) = DisplayCalls - quota
           /\ emitted[Len(emitted)] =
                  [level |-> SpecifiedLevel(disp.fn), code |-> args.code,
                   title |-> args.title, message |-> args.message,
                   context |-> args.context, hint |-> args.hint,
                   location |-> args.location]
    /\ (Written # <<>>) => (Len(emitted) > 0)

\* C20 witness: display_warning has printed a whole box with a context and
\* a hint after its WARN event.
C20_Witness ==
    /\ disp.fn = "display_warning"
    /\ pc = "flushed"
    /\ flush_res = "Ok"
    /\ IsSome(args.context) /\ IsSome(args.hint)
    /\ Len(dev) > 40
    /\ Len(emitted) = 1
    /\ emitted[1].level = "WARN"

\* ------------------------------------------------------------------ config

LowerLetters ==
    {"a", "b", "c", "d", "e", "f", "g", "h", "i", "j", "k", "l", "m", "n", "o", "p",
     "q", "r", "s", "t", "u", "v", "w", "x", "y", "z"}

LowerChar(c) ==
    IF \E l \in LowerLetters : UpperChar(l) = c
    THEN CHOOSE l \in LowerLetters : UpperChar(l) = c
    ELSE c

\* str::to_lowercase on ASCII letters and other characters
to_lowercase(s) == [i \in 1..Len(s) |-> LowerChar(s[i])]

STDOUT == <<"s", "t", "d", "o", "u", "t">>
STDERR == <<"s", "t", "d", "e", "r", "r">>

\* LogOutput::default()
DefaultOutput == [kind |-> "Stderr", path |-> <<>>]

\* the output of TracingConfig::from_env(); var is <<>> when GMN_LOG_OUTPUT
\* is not set and <<value>> when it is
from_env_output(var) ==
    IF var = <<>> THEN DefaultOutput
    ELSE LET output == var[1]
             lowered == to_lowercase(output)
         IN  IF lowered = STDOUT THEN [kind |-> "Stdout", path |-> <<>>]
             ELSE IF lowered = STDERR THEN [kind |-> "Stderr", path |-> <<>>]
             ELSE [kind |-> "File", path |-> lowered]

\* a word in every mix of upper and lower case
CaseVariants(w) ==
    {[i \in 1..Len(w) |-> IF i \in S THEN UpperChar(w[i]) ELSE w[i]] :
        S \in SUBSET (1..Len(w))}

EnvValues ==
    CaseVariants(STDOUT) \cup CaseVariants(STDERR)
        \cup StringsOver({"/", "a", "A"}, EnvMaxLen)

EnvInit ==
    /\ pc = "probe"
    /\ p_in \in {<<>>} \cup {<<v>> : v \in EnvValues}
    /\ p_out = <<>>
    /\ ProbeRest

\* TracingConfig::from_env(), its output field
FromEnv ==
    /\ pc = "probe"
    /\ p_out' = <<from_env_output(p_in)>>
    /\ pc' = "probed"
    /\ UNCHANGED <<env, clock, stderr_broken, entry, content_width, timestamp, wrapped,
                   idx, render_res, flush_res, sinks, ret, last, quota, threads, p_in, tracing>>

SpecEnv == EnvInit /\ [][FromEnv]_vars

\* C21: GMN_LOG_OUTPUT unset keeps Stderr; stdout or stderr in any letter
\* case selects that stream; any other value selects File with exactly
\* the value of the variable as its path.
C21_OutputFromEnv ==
    pc = "probed" =>
        IF p_in = <<>> THEN p_out[1] = [kind |-> "Stderr", path |-> <<>>]
        ELSE IF to_lowercase(p_in[1]) = STDOUT
             THEN p_out[1] = [kind |-> "Stdout", path |-> <<>>]
        ELSE IF to_lowercase(p_in[1]) = STDERR
             THEN p_out[1] = [kind |-> "Stderr", path |-> <<>>]
        ELSE p_out[1] = [kind |-> "File", path |-> p_in[1]]

\* --------------------------------------------------- the width, as a whole

\* the largest number of a non-empty set
MaxOf(S) == CHOOSE x \in S : \A y \in S : y <= x

\* the newline-delimited pieces of a text
Pieces(text) == {SplitNewline(text)[k] : k \in 1..Len(SplitNewline(text))}

\* the lengths the width must hold: the header, the location row, and
\* every row of the message, the context and the hint with its indent
LowerBounds ==
    {header_left_len(frame_for(args.level), args.title)
         + header_right_len(args.code, FormatTime(clock))}
    \cup (IF IsSome(args.location)
            THEN {visible_len(<<" ", " ", " ", "TRI", "a", "t", " ">> \o args.location)}
            ELSE {})
    \cup {2 + visible_len(l) : l \in Pieces(args.message)}
    \cup (IF IsSome(args.context)
            THEN {2 + visible_len(l) : l \in Pieces(args.context)} ELSE {})
    \cup (IF IsSome(args.hint)
            THEN {5 + visible_len(l) : l \in Pieces(args.hint)} ELSE {})

\* C22: compute_content_width returns exactly
\* min(clamp(bound + 4, 40, 140), max(termLimit, 40)), bound being the
\* largest of the header length, the location row length, and the indented
\* length of every message, context and hint line; so whenever
\* bound + 4 <= min(140, termLimit) the width is at least bound + 4.
C22_WidthFormula ==
    pc = "width" =>
        LET bound == MaxOf(LowerBounds)
            termLimit == terminal_width_limit(term)
        IN  /\ content_width =
                   Min(Clamp(bound + 4, 40, 140), Max(termLimit, 40))
            /\ bound + 4 <= Min(140, termLimit) => content_width >= bound + 4

\* C22 witness: a 60-column hint is the longest row, and on a 300-column
\* terminal the width is its 65 columns and 4 more.
C22_Witness ==
    /\ pc = "width"
    /\ args.hint = MidText
    /\ args.message = ShortText
    /\ term.live = <<300>>
    /\ MaxOf(LowerBounds) = 5 + MidLen
    /\ content_width = 5 + MidLen + 4

\* the width of the terminal as the three cases give it: the live width,
\* else COLUMNS when it parses, else 100
DetectedWidth(t) ==
    IF KnownWidth(t) # <<>> THEN KnownWidth(t)[1] ELSE 100

\* C23: the terminal limit is the live width when the query succeeds
\* (COLUMNS is then ignored), else the COLUMNS value when it parses, else
\* 100, and in each of the three cases less the 2-column gutter,
\* saturating at 0; the width returned is capped by that limit.
C23_TerminalLimit ==
    pc = "width" =>
        LET limit == SatSub(DetectedWidth(term), 2)
        IN  content_width =
                Min(Clamp(MaxOf(LowerBounds) + FRAME_MARGIN, MIN_CONTENT_WIDTH,
                          MAX_CONTENT_WIDTH),
                    Max(limit, MIN_CONTENT_WIDTH))

\* C24: the header lengths compute_content_width sums are the visible
\* lengths of the left part and the right part render_pretty_message
\* writes in the header row, for every style, title and code.
C24_HeaderMeasuredAsRendered ==
    pc = "width" =>
        /\ header_left_len(frame, args.title) = visible_len(LeftPart(frame, args.title))
        /\ header_right_len(args.code, FormatTime(clock))
               = visible_len(RightPart(args.code, FormatTime(clock)))

\* ------------------------------------------------- segments and their rows

ThreeSegments == <<"a", "b", NL, NL, "c", "d">>
TrailingNewline == <<"a", "b", NL>>
\* three pairs of words, 38 columns
Wordy == TwoWords \o <<" ">> \o TwoWords \o <<" ">> \o TwoWords

SegmentTexts == {TwoLines, ThreeSegments, TrailingNewline, Wordy}

WrapArgs ==
    {ArgsOf("Error", ShortTitle, TheCode, m, x, h, loc) :
        m \in SegmentTexts, x \in {None, TrailingNewline, Wordy},
        h \in {None, ThreeSegments, Wordy}, loc \in {None, ShortLocation}}

WrapInit ==
    /\ args \in WrapArgs
    /\ term \in {[live |-> <<>>, columns |-> None], [live |-> <<20>>, columns |-> None]}
    /\ colorize = TRUE
    /\ wrap_algorithm \in {"OptimalFit", "FirstFit"}
    /\ clock = 35999
    /\ pc = "idle"
    /\ quota = 1
    /\ InitRest
    /\ NoThreads

SpecWrap == WrapInit /\ [][Next]_vars

\* every newline-delimited segment of text fits in width columns
Fits(text, width) == \A l \in Pieces(text) : display_width(l) <= width

\* the number of newline-delimited segments of text
Segments(text) == Len(SplitNewline(text))

RECURSIVE Flatten(_, _)
\* the sequences i.. of parts, one after the other
Flatten(parts, i) ==
    IF i > Len(parts) THEN <<>> ELSE parts[i] \o Flatten(parts, i + 1)

\* the wrapped lines of every segment, one segment after the other
SegmentWise(text, width) ==
    LET segs == SplitNewline(text)
    IN  \E parts \in [1..Len(segs) -> UNION {wrap_single_line(segs[k], width) :
                                                 k \in 1..Len(segs)}] :
            /\ \A k \in 1..Len(segs) : parts[k] \in wrap_single_line(segs[k], width)
            /\ wrapped = Flatten(parts, 1)

\* the rows written so far
RowsWritten == Cardinality(NewlinesOf(Written))

\* the last row written is the content row of line, indented
LastRowIs(indent, line, style) ==
    LastRow(Written) \o <<NewlineChunk(1)>>
        = <<Chunk(frame.border_v), Chunk(indent \o Colored(line, style))>>
              \o write_padding(SatSub(content_width,
                                      Len(indent) + visible_len(line)))
              \o <<Chunk(frame.border_v), NewlineChunk(1)>>

\* the rows above the message, the context and the hint lines when every
\* segment before them fits its wrap width
AboveMessage == 5 + (IF IsSome(args.location) THEN 1 ELSE 0)
AboveContext == AboveMessage + Segments(args.message) + 2
AboveHint ==
    AboveMessage + Segments(args.message) + 1
        + (IF IsSome(args.context) THEN Segments(args.context) + 2 ELSE 0) + 2

MessageWidth == Max(content_width - 4, 10)
HintWidth == content_width - 6

\* C25: message, context and hint are split at their newlines and each
\* segment is wrapped on its own, message and context at
\* max(content_width - 4, 10) columns with 2 spaces of indent and the hint
\* at content_width - 6 columns with 5; every wrapped line is one content
\* row; a text of k segments that each fit yields exactly k rows.
C25_SegmentsWrapped ==
    /\ pc = "message" =>
        /\ SegmentWise(args.message, MessageWidth)
        /\ RowsWritten = AboveMessage + idx - 1
        /\ idx > 1 => LastRowIs(<<" ", " ">>, wrapped[idx - 1], <<"3", "7">>)
        /\ Fits(args.message, MessageWidth) => Len(wrapped) = Segments(args.message)
    /\ pc = "context" =>
        /\ SegmentWise(args.context, MessageWidth)
        /\ idx > 1 => LastRowIs(<<" ", " ">>, wrapped[idx - 1], Gray150)
        /\ Fits(args.context, MessageWidth) => Len(wrapped) = Segments(args.context)
        /\ Fits(args.message, MessageWidth) => RowsWritten = AboveContext + idx - 1
    /\ (IsSome(args.hint) /\ (pc = "hint" \/ (pc = "bottom" /\ render_res = "none"))) =>
        /\ SegmentWise(args.hint, HintWidth)
        /\ idx > 1 => LastRowIs(<<" ", " ", " ", " ", " ">>, wrapped[idx - 1], <<"3", "3">>)
        /\ Fits(args.hint, HintWidth) => Len(wrapped) = Segments(args.hint)
        /\ (Fits(args.message, MessageWidth)
              /\ (IsSome(args.context) => Fits(args.context, MessageWidth)))
              => RowsWritten = AboveHint + idx - 1

\* C25 witness: a hint of three segments, the middle one empty, has been
\* written as three rows below a two-line message.
C25_Witness ==
    /\ pc = "bottom"
    /\ args.hint = ThreeSegments
    /\ args.message = TwoLines
    /\ args.context = TrailingNewline
    /\ Len(wrapped) = 3
    /\ idx = 4
    /\ RowsWritten = AboveHint + 3

\* --------------------------------- render_pretty_message at a given width

\* the widths render_pretty_message is called with directly
RenderWidths == {0, 5, 12, 16, 40}

RenderAtArgs ==
    {ArgsOf("Error", ShortTitle, TheCode, TwoWords, x, h, loc) :
        x \in {None, TwoWords}, h \in {None, TwoWords},
        loc \in {None, ShortLocation}}

\* render_pretty_message(&mut Vec::new(), frame, content_width, ..) is
\* entered
RenderAtInit ==
    /\ args \in RenderAtArgs
    /\ content_width \in RenderWidths
    /\ term = [live |-> <<>>, columns |-> None]
    /\ colorize = TRUE
    /\ wrap_algorithm \in {"OptimalFit", "FirstFit"}
    /\ clock = 35999
    /\ quota = 0
    /\ stderr_broken = FALSE
    /\ entry = "to_string"
    /\ pc = "top"
    /\ timestamp = <<>>
    /\ wrapped = <<>>
    /\ idx = 0
    /\ render_res = "none"
    /\ flush_res = "none"
    /\ buf = EmptyBuf
    /\ dev = <<>>
    /\ vec = <<>>
    /\ io_log = <<>>
    /\ p_in = <<>>
    /\ p_out = <<>>
    /\ ret = "none"
    /\ last = [print |-> NoCall, to_string |-> NoCall]
    /\ NoThreads

RenderAtNext ==
    \/ RenderTop
    \/ RenderHeader
    \/ RenderLocation
    \/ RenderDivider
    \/ RenderBlank
    \/ RenderMessageLine
    \/ RenderMessageEnd
    \/ RenderContextLabel
    \/ RenderContextLine
    \/ RenderContextEnd
    \/ RenderHintDivider
    \/ RenderHintLabel
    \/ RenderHintLine
    \/ RenderBottom

SpecRenderAt == RenderAtInit /\ [][RenderAtNext]_vars

C27_HintWidthAtLeast34 ==
    /\ pc # "panicked"
    /\ pc = "hint" =>
        /\ content_width - 6 >= 34
        /\ hint_wrap_width(content_width) = {content_width - 6}
        /\ wrapped \in wrap(args.hint, content_width - 6)

\* C27 witness: on a 20-column terminal the width is the floor of 40 and a
\* hint of 38 columns is wrapped at 34 columns into two lines.
C27_Witness ==
    /\ pc = "hint"
    /\ term.live = <<20>>
    /\ content_width = MIN_CONTENT_WIDTH
    /\ args.hint = Wordy
    /\ Len(wrapped) = 2

\* ---------------------------------------------------- write_padding, looped

\* A chunk that is always the whole filler.
padding_len_whole(remaining) == SPACES_LEN

\* let len = remaining.min(SPACES.len())
padding_len(remaining) == Min(remaining, SPACES_LEN)

\* write_padding(w, n) is entered; the writer fails at its fail_at-th
\* write, or never when fail_at is 0
PaddingInit ==
    /\ pc = "pad"
    /\ \E n \in 0..PadMax, fail_at \in 0..3 :
        /\ p_in = <<n, fail_at>>
        /\ p_out = [remaining |-> n, writes |-> <<>>, res |-> "none"]
    /\ RenderAtRest
    /\ NoThreads

\* one turn of the loop: w.write_all(&SPACES.as_bytes()[..len])?
PaddingWrite ==
    /\ pc = "pad"
    /\ p_out.remaining > 0
    /\ LET len == padding_len(p_out.remaining)
       IN  IF Len(p_out.writes) + 1 = p_in[2]
               THEN /\ p_out' = [p_out EXCEPT !.res = "Err"]
                    /\ pc' = "padded"
               ELSE /\ p_out' = [p_out EXCEPT !.writes = Append(@, [s |-> <<" ">>, n |-> len]),
                                              !.remaining = @ - len]
                    /\ pc' = "pad"
    /\ UNCHANGED <<env, clock, stderr_broken, entry, content_width, timestamp, wrapped,
                   idx, render_res, flush_res, sinks, ret, last, quota, threads, p_in, tracing>>

\* the loop ends: Ok(())
PaddingReturn ==
    /\ pc = "pad"
    /\ p_out.remaining <= 0
    /\ p_out' = [p_out EXCEPT !.res = "Ok"]
    /\ pc' = "padded"
    /\ UNCHANGED <<env, clock, stderr_broken, entry, content_width, timestamp, wrapped,
                   idx, render_res, flush_res, sinks, ret, last, quota, threads, p_in, tracing>>

PaddingNext == PaddingWrite \/ PaddingReturn

\* the loop goes on while it can
SpecPadding == PaddingInit /\ [][PaddingNext]_vars /\ WF_vars(PaddingNext)

RECURSIVE BytesOf(_, _)
\* the bytes of the writes i.. of ws
BytesOf(ws, i) == IF i > Len(ws) THEN 0 ELSE ws[i].n + BytesOf(ws, i + 1)

\* what holds at every turn of the loop
PaddingSafe ==
    LET n == p_in[1]
        writes == p_out.writes
    IN  /\ \A i \in 1..Len(writes) :
               writes[i].s = <<" ">> /\ writes[i].n \in 1..72
        /\ BytesOf(writes, 1) + p_out.remaining = n
        /\ p_out.res = "Ok" =>
               /\ BytesOf(writes, 1) = n
               /\ Len(writes) = (n + 71) \div 72
               /\ writes = write_padding(n)
        /\ p_out.res = "Err" => Len(writes) = p_in[2] - 1
        /\ p_out.res # "none" <=> pc = "padded"

\* C28: write_padding(w, n) terminates for every n >= 0; when no write
\* fails it writes exactly n bytes, all spaces, in ceil(n / 72) chunks of
\* at most 72 bytes (none for n = 0); a failed chunk ends it at once with
\* the error and the remaining chunks are not written.
C28_PaddingChunks == []PaddingSafe /\ <>(pc = "padded")

\* C28 witness: a padding of more than two fillers was written in three
\* chunks.
C28_Witness ==
    /\ pc = "padded"
    /\ p_out.res = "Ok"
    /\ p_in[1] > 2 * SPACES_LEN
    /\ Len(p_out.writes) = 3
    /\ p_out.writes[3].n = p_in[1] - 2 * SPACES_LEN

\* the calls that passed the initialized check, finished or not
PassedInits ==
    {x \in FinishedInits : OutcomeOf(x).passed}
        \cup {<<t, 0>> : t \in {u \in InitThreads : inits[u].at = "passed"}}

\* an init call has started: it has made its swap
InitStarted ==
    \E t \in InitThreads : inits[t].at # "idle" \/ inits[t].done # <<>>

\* the flag is set from the first swap on, one call at most gets past it,
\* and every other call has returned AlreadyInitialized, a panic of the
\* one call included
FlagHeld ==
    /\ TRACING_INITIALIZED <=> InitStarted
    /\ Cardinality(PassedInits) <= 1
    /\ \A x \in FinishedInits :
           ~OutcomeOf(x).passed => OutcomeOf(x).ret = "AlreadyInitialized"
    /\ (\E t \in InitThreads : inits[t].at = "dead") =>
           TRACING_INITIALIZED /\ subscriber # "init"

\* C29: the initialized flag is monotonic and never rolled back: once an
\* init_tracing_with_config call has started, TRACING_INITIALIZED is true
\* in every later state and every later call returns AlreadyInitialized,
\* even when the first call panicked and installed no subscriber.
C29_FlagNeverRolledBack ==
    []FlagHeld /\ [][TRACING_INITIALIZED => TRACING_INITIALIZED']_vars

\* C29 witness: the first call panicked while installing, no subscriber
\* is installed, and a call of the other thread was refused afterwards.
C29_Witness ==
    /\ inits[1].at = "dead"
    /\ subscriber = "none"
    /\ TRACING_INITIALIZED
    /\ Len(inits[2].done) = InitCallsPerThread
    /\ \A k \in 1..InitCallsPerThread : inits[2].done[k].ret = "AlreadyInitialized"

\* ---------------------------------------------------------------- GMNError

\* GMNCoreErrorCode::as_key, for three of the codes
as_key(code) ==
    CASE code = "Unknown" -> <<"G", "M", "N", "_", "C", "O", "R", "E", "_", "0", "0", "0">>
      [] code = "NotFound" -> <<"G", "M", "N", "_", "C", "O", "R", "E", "_", "4", "0", "4">>
      [] code = "InvalidInput" -> <<"G", "M", "N", "_", "A", "P", "P", "_", "0", "0", "2">>

CoreCodes == {"Unknown", "NotFound", "InvalidInput"}

DefHint == TwoWords
DefMessage == TwoLines

\* the error registry: for the key of every code a title, a message and
\* an optional hint
Registries ==
    [CoreCodes -> {[title |-> ShortTitle, message |-> DefMessage, hint |-> h] :
                       h \in {None, DefHint}}]

\* GMNError values: the code, and the hint, the context and the location
\* the instance carries
GMNErrors ==
    {[code |-> c, hint |-> h, context |-> x, location |-> ShortLocation] :
        c \in CoreCodes, h \in {None, ShortText}, x \in {None, MidText}}

\* A precedence the wrong way round: the definition's hint first.
effective_hint_def_first(own, def) == IF IsSome(def) THEN def ELSE own

\* self.hint.as_deref().or(def.hint.as_deref())
effective_hint(own, def) == IF IsSome(own) THEN own ELSE def

\* the registry in p_in[1] and the error in p_in[2]
GmnInit ==
    /\ p_in \in Registries \X GMNErrors
    /\ p_out = <<>>
    /\ RenderAtRest
    /\ pc = "idle"
    /\ NoThreads

\* what both functions hand the renderer
GmnArgs ==
    LET e == p_in[2]
        def == p_in[1][e.code]
    IN  ArgsOf("Error", def.title, as_key(e.code), def.message, e.context,
               effective_hint(e.hint, def.hint), e.location)

\* GMNError::pretty_print: print_pretty_error(..)
GmnPrettyPrint ==
    /\ pc = "idle"
    /\ p_out = <<>>
    /\ p_out' = <<"pretty_print">>
    /\ args' = GmnArgs
    /\ entry' = "print"
    /\ pc' = "compute"
    /\ buf' = EmptyBuf
    /\ dev' = <<>>
    /\ io_log' = <<>>
    /\ ret' = "none"
    /\ UNCHANGED <<term, colorize, wrap_algorithm, clock, stderr_broken, content_width,
                   timestamp, wrapped, idx, render_res, flush_res, vec, last, quota,
                   threads, p_in, tracing>>

\* <GMNError as Display>::fmt: pretty_message_to_string(..)
GmnDisplay ==
    /\ pc = "idle"
    /\ p_out = <<>>
    /\ p_out' = <<"fmt">>
    /\ args' = GmnArgs
    /\ entry' = "to_string"
    /\ pc' = "compute"
    /\ vec' = NewVec
    /\ io_log' = <<>>
    /\ ret' = "none"
    /\ UNCHANGED <<term, colorize, wrap_algorithm, clock, stderr_broken, content_width,
                   timestamp, wrapped, idx, render_res, flush_res, buf, dev, last, quota,
                   threads, p_in, tracing>>

GmnNext ==
    \/ GmnPrettyPrint
    \/ GmnDisplay
    \/ ComputeContentWidth
    \/ RenderTop
    \/ RenderHeader
    \/ RenderLocation
    \/ RenderDivider
    \/ RenderBlank
    \/ RenderMessageLine
    \/ RenderMessageEnd
    \/ RenderContextLabel
    \/ RenderContextLine
    \/ RenderContextEnd
    \/ RenderHintDivider
    \/ RenderHintLabel
    \/ RenderHintLine
    \/ RenderBottom
    \/ PrintFlush
    \/ PrintReturn
    \/ StringReturn
    \/ Tick
    \/ BreakStderr

SpecGmn == GmnInit /\ [][GmnNext]_vars

\* the rows written that are the HINT label row
HintLabelRows ==
    {i \in 1..Len(Written) : Written[i] = Chunk(HintLabel)}

\* the hint the claim has rendered: the instance's, else the definition's
ClaimedHint ==
    IF IsSome(p_in[2].hint) THEN p_in[2].hint ELSE p_in[1][p_in[2].code].hint

====
